---- MODULE Spec2Model ----
(***************************************************************************)
(* Model of the Spotify Rediscovery Analyzer core (src/src/               *)
(* spotify_analysis.py): the event normalizer (parse_ts, is_podcast,       *)
(* safe_meta, filter_music_rows), the aggregator (compute_artist_stats)    *)
(* and the four detectors (analyze_spikes, analyze_dropoffs,               *)
(* analyze_dormant_artists, analyze_one_album_obsessions), run one after   *)
(* the other on a list of events (Next); and of main of                    *)
(* src/src/spotify_rediscover_cli.py, which carries a pipeline of its own  *)
(* (NextMain).                                                             *)
(*                                                                         *)
(* Conventions.                                                            *)
(*  - An instant (a timezone-aware datetime in UTC) is a record [day, sec, *)
(*    us]: the days elapsed since 0001-01-01, the second of the day and    *)
(*    the microsecond of the second.  None is NoneDt.                      *)
(*  - A month key is the integer YYYY*100 + MM.  The code holds it as the  *)
(*    string strftime("%Y-%m") prints, without padding of the year, and    *)
(*    orders months as strings: MonthStr.                                  *)
(*  - A name is a string; names are ordered as Python orders strings, by   *)
(*    the code points of their characters: NameKey.                        *)
(*  - A Python dict is a sequence of [k, v] records in insertion order     *)
(*    (the order dict iteration, max() and the stable sorts observe).      *)
(*  - Floats are modelled by exact rational arithmetic; a z-score is the   *)
(*    pair [n, d] standing for n / sqrt(d).  Where the rounding of the     *)
(*    doubles changes a result, the model follows the doubles: see         *)
(*    ZGeSpike, RoundZ, Round2 and RoundHours.                             *)
(***************************************************************************)
EXTENDS Integers, Sequences, FiniteSets, TLC

VARIABLES
    in_rows,           \* the raw records handed to filter_music_rows
    in_min_ms,         \* its min_ms argument
    in_exclude,        \* its exclude_podcasts argument
    events,            \* the normalized events (the list music)
    stats,             \* the dicts compute_artist_stats returned last
    clock,             \* the wall clock: what datetime.now(timezone.utc) returns
    ticks,             \* how often the clock has advanced
    fp_low,            \* where the doubles fall below a threshold or a tie:
                       \* [z: the points of a z-score, h: the sums of ms]
    pc,                \* the call of the pipeline, or the section of main,
                       \* that is next
    cursor,            \* the drop-off loops: the entity they are at
    drop_acc,          \* the drop-off loops: the lists drop_artists, drop_albums
    out,               \* the result lists of the detectors of this run
    run,               \* 1 for the first run of the pipeline, 2 for the second
    prev               \* the result lists of the first run

vars == <<in_rows, in_min_ms, in_exclude, events, stats, clock, ticks, fp_low,
          pc, cursor, drop_acc, out, run, prev>>

\* ------------------------------------------------------------ thresholds
MIN_MS == 0
SPIKE_Z == 2
SPIKE_MIN_PLAYS == 60
\* DROP_PEAK_SHARE = 0.40, ALBUM_DOMINANCE = 0.80, ALBUM_CONCENTRATION = 0.70,
\* as percentages
DROP_PEAK_SHARE_PCT == 40
DROP_RECENT_SILENCE_M == 24
DROP_PEAK_MIN_PLAYS == 20
GRIP_MIN_HOURS == 3
GRIP_DORMANT_YEARS == 2
ALBUM_DOMINANCE_PCT == 80
ALBUM_MIN_MONTH_PLAYS == 20
ALBUM_CONCENTRATION_PCT == 70
\* timedelta(days=60) of the obsession scan, in days
WINDOW_DAYS == 60
\* max(5, SPIKE_MIN_PLAYS // 2): the floor of an album spike
AlbumSpikeFloor == IF 5 >= SPIKE_MIN_PLAYS \div 2 THEN 5 ELSE SPIKE_MIN_PLAYS \div 2

SecondsPerDay == 86400
MsPerHour == 3600000
UNKNOWN == "<unknown>"

\* ------------------------------------------------------------ calendar
\* datetime's proleptic Gregorian calendar.
IsLeap(y) == (y % 4 = 0) /\ ((y % 100 # 0) \/ (y % 400 = 0))

DaysInMonth(y, m) ==
    IF m = 2 THEN (IF IsLeap(y) THEN 29 ELSE 28)
    ELSE IF m \in {4, 6, 9, 11} THEN 30 ELSE 31

\* days from 0001-01-01 to the first day of year y
DaysBeforeYear(y) ==
    LET p == y - 1 IN 365 * p + (p \div 4) - (p \div 100) + (p \div 400)

\* days from the first day of year y to the first day of its month m
DaysBeforeMonth(y, m) ==
    <<0, 31, 59, 90, 120, 151, 181, 212, 243, 273, 304, 334>>[m]
        + (IF m > 2 /\ IsLeap(y) THEN 1 ELSE 0)

\* days from 0001-01-01 to the date y-m-d (date.toordinal() - 1)
DaysFromCivil(y, m, d) == DaysBeforeYear(y) + DaysBeforeMonth(y, m) + (d - 1)

\* the year, month and day of the date n days after 0001-01-01
YearOfDays(n) ==
    CHOOSE y \in ((n \div 366) + 1)..((n \div 365) + 1) :
        DaysBeforeYear(y) <= n /\ n < DaysBeforeYear(y + 1)

MonthOfDays(n) ==
    LET y == YearOfDays(n)
        r == n - DaysBeforeYear(y)
    IN CHOOSE m \in 1..12 :
        DaysBeforeMonth(y, m) <= r /\ r < DaysBeforeMonth(y, m) + DaysInMonth(y, m)

DayOfDays(n) ==
    LET y == YearOfDays(n)
    IN n - DaysBeforeYear(y) - DaysBeforeMonth(y, MonthOfDays(n)) + 1

\* fields of an instant (dt.year, dt.month, dt.date())
DayNo(t) == t.day
YearOf(t) == YearOfDays(DayNo(t))
MonthOf(t) == MonthOfDays(DayNo(t))
\* dt.date().isoformat() "YYYY-MM-DD" as the integer YYYYMMDD
DateOf(t) == YearOf(t) * 10000 + MonthOf(t) * 100 + DayOfDays(DayNo(t))

\* the instant of a UTC wall time, with and without seconds
UtcAt(y, m, d, h, mi, s, us) ==
    [day |-> DaysFromCivil(y, m, d), sec |-> h * 3600 + mi * 60 + s, us |-> us]
Utc(y, m, d, h, mi) == UtcAt(y, m, d, h, mi, 0, 0)

\* a < b and a <= b for two datetimes
DtLess(a, b) ==
    \/ a.day < b.day
    \/ a.day = b.day /\ a.sec < b.sec
    \/ a.day = b.day /\ a.sec = b.sec /\ a.us < b.us
DtLe(a, b) == a = b \/ DtLess(a, b)

\* the second argument whatever the first: the value just read replaces
\* the one recorded
TakeSecond(a, b) == b
\* max(a, b) and min(a, b) of two datetimes
MaxDt(a, b) == IF DtLess(a, b) THEN b ELSE a
MinDt(a, b) == IF DtLess(b, a) THEN b ELSE a

\* t + timedelta(seconds=n) and t + timedelta(days=n)
PlusSeconds(t, n) ==
    [day |-> t.day + ((t.sec + n) \div SecondsPerDay),
     sec |-> (t.sec + n) % SecondsPerDay, us |-> t.us]
PlusDays(t, n) == [t EXCEPT !.day = @ + n]

\* datetime.min and datetime.max with tzinfo=utc: the seeds of the max/min
\* folds and the ends of the range of datetime
DatetimeMin == UtcAt(1, 1, 1, 0, 0, 0, 0)
DatetimeMax == UtcAt(9999, 12, 31, 23, 59, 59, 999999)
NoneDt == [day |-> -1, sec |-> 0, us |-> 0]

\* ------------------------------------------------------------ raw records
\* A JSON value of a text field: the key is missing, is null, or is a string.
TMissing == [t |-> "missing", s |-> ""]
TNull == [t |-> "null", s |-> ""]
TStr(s) == [t |-> "str", s |-> s]

\* row.get(key) or "" for a text field
OrEmpty(x) == IF x.t = "str" THEN x.s ELSE ""

\* A JSON value of ms_played: missing, null, an integer, a string holding an
\* integer ("5000"), or a string that int() rejects ("abc").
MsMissing == [t |-> "missing", v |-> 0]
MsNull == [t |-> "null", v |-> 0]
MsInt(v) == [t |-> "int", v |-> v]
MsNumStr(v) == [t |-> "numstr", v |-> v]
MsBadStr == [t |-> "badstr", v |-> 0]

\* A JSON value of ts: missing, null, "", a string that is no ISO timestamp,
\* or an ISO timestamp: a wall time with seconds s and microseconds us,
\* followed by "Z" (zone "Z"), by an offset "+HH:MM[:SS]"/"-HH:MM[:SS]" (zone
\* "offset", off in seconds) or by nothing (zone "naive").
TsMissing == [form |-> "missing", y |-> 0, mo |-> 0, d |-> 0, h |-> 0, mi |-> 0,
              s |-> 0, us |-> 0, zone |-> "naive", off |-> 0]
TsNull == [TsMissing EXCEPT !.form = "null"]
TsEmpty == [TsMissing EXCEPT !.form = "empty"]
TsInvalid == [TsMissing EXCEPT !.form = "invalid"]
TsIsoAt(y, mo, d, h, mi, s, us, zone, off) ==
    [form |-> "iso", y |-> y, mo |-> mo, d |-> d, h |-> h, mi |-> mi,
     s |-> s, us |-> us, zone |-> zone, off |-> off]
\* a timestamp of a whole minute, its offset given in minutes
TsIso(y, mo, d, h, mi, zone, off) == TsIsoAt(y, mo, d, h, mi, 0, 0, zone, off * 60)

\* ------------------------------------------------------------ normalizer
\* datetime.fromisoformat accepts the fields: a date and a time of day that
\* exist, and an offset strictly between -24 and +24 hours
ValidIso(ts) ==
    /\ ts.y \in 1..9999 /\ ts.mo \in 1..12
    /\ ts.d >= 1 /\ ts.d <= DaysInMonth(ts.y, ts.mo)
    /\ ts.h \in 0..23 /\ ts.mi \in 0..59
    /\ ts.s \in 0..59 /\ ts.us \in 0..999999
    /\ ts.zone = "offset" => (ts.off > -SecondsPerDay /\ ts.off < SecondsPerDay)

\* parse_ts that stamps the wall time as UTC whatever the offset says
\* (dt.replace(tzinfo=utc) for dt.astimezone(utc))
parse_ts_wall(ts) ==
    IF ts.form # "iso" THEN NoneDt
    ELSE IF ~ValidIso(ts) THEN NoneDt
    ELSE UtcAt(ts.y, ts.mo, ts.d, ts.h, ts.mi, ts.s, ts.us)

\* parse_ts: None for a falsy or unparseable value; otherwise the wall time
\* read at its offset ("Z" is rewritten to "+00:00", no offset is taken as
\* UTC) and converted to UTC.  astimezone raises OverflowError where the
\* UTC time lies outside datetime.min..datetime.max, and the except clause
\* answers None.
parse_ts(ts) ==
    IF ts.form # "iso" THEN NoneDt
    ELSE IF ~ValidIso(ts) THEN NoneDt
    ELSE LET zone == IF ts.zone = "Z" THEN "offset" ELSE ts.zone
             off == IF ts.zone = "Z" THEN 0 ELSE ts.off
             wall == UtcAt(ts.y, ts.mo, ts.d, ts.h, ts.mi, ts.s, ts.us)
             utc == IF zone = "naive" THEN wall ELSE PlusSeconds(wall, -off)
         IN IF DtLe(DatetimeMin, utc) /\ DtLe(utc, DatetimeMax) THEN utc ELSE NoneDt

\* is_podcast with and for or
is_podcast_both(r) == OrEmpty(r.episode_name) # "" /\ OrEmpty(r.episode_show_name) # ""

\* is_podcast: bool(row.get("episode_name") or row.get("episode_show_name"))
is_podcast(r) == OrEmpty(r.episode_name) # "" \/ OrEmpty(r.episode_show_name) # ""

\* safe_meta: (track, album, artist), "" for a missing or null field
safe_meta(r) == <<OrEmpty(r.track), OrEmpty(r.album), OrEmpty(r.artist)>>

\* month_key: dt.astimezone(utc).strftime("%Y-%m"), as the integer
\* YYYY*100 + MM
month_key(t) == YearOf(t) * 100 + MonthOf(t)

\* The string of a month key, as a number that orders the keys as the code
\* orders them, as strings.  strftime("%Y") prints the year without padding
\* ("999-12", "1000-01"), so the string has 4 to 7 characters; each is read
\* as a digit of base 11, "-" as 0 and "0".."9" as 1..10, and the missing
\* characters at the end as 0: "1000-01" is below "999-12".
RECURSIVE Digits(_)
Digits(n) == IF n < 10 THEN <<n + 1>> ELSE Digits(n \div 10) \o <<(n % 10) + 1>>
RECURSIVE Base11(_, _)
Base11(ds, width) ==
    IF width = 0 THEN 0
    ELSE IF ds = <<>> THEN 0
    ELSE Head(ds) * (11 ^ (width - 1)) + Base11(Tail(ds), width - 1)
MonthStr(mk) ==
    Base11(Digits(mk \div 100) \o <<0, ((mk % 100) \div 10) + 1, (mk % 10) + 1>>, 7)

\* int(r.get("ms_played") or 0) raises ValueError on a non-numeric string
MsRaises(r) == r.ms_played.t = "badstr"
MsOf(r) == IF r.ms_played.t \in {"int", "numstr"} THEN r.ms_played.v ELSE 0

\* the event filter_music_rows appends for a kept record
EventOf(r) ==
    LET meta == safe_meta(r)
    IN [ts |-> parse_ts(r.ts), ms |-> MsOf(r), track |-> meta[1],
        album |-> meta[2], artist |-> meta[3], plays |-> 1]

\* one iteration of the loop of filter_music_rows: "skip", "raise" or "keep"
RowOutcome(r, min_ms, exclude_podcasts) ==
    IF exclude_podcasts /\ is_podcast(r) THEN "skip"
    ELSE IF MsRaises(r) THEN "raise"
    ELSE IF MsOf(r) < min_ms THEN "skip"
    ELSE IF parse_ts(r.ts) = NoneDt THEN "skip"
    ELSE "keep"

\* filter_music_rows: the kept events in input order, or the exception that
\* leaves the loop (raised = TRUE: nothing is returned).
RECURSIVE FilterFrom(_, _, _, _, _)
FilterFrom(rows, i, min_ms, exclude_podcasts, acc) ==
    IF i > Len(rows) THEN [raised |-> FALSE, music |-> acc]
    ELSE LET o == RowOutcome(rows[i], min_ms, exclude_podcasts)
         IN IF o = "raise" THEN [raised |-> TRUE, music |-> <<>>]
            ELSE FilterFrom(rows, i + 1, min_ms, exclude_podcasts,
                            IF o = "keep" THEN Append(acc, EventOf(rows[i])) ELSE acc)

filter_music_rows(rows, min_ms, exclude_podcasts) ==
    FilterFrom(rows, 1, min_ms, exclude_podcasts, <<>>)

\* ------------------------------------------------------------ dicts
\* A dict is a sequence of [k, v] records in insertion order.
Keys(d) == {d[i].k : i \in 1..Len(d)}
Has(d, k) == \E i \in 1..Len(d) : d[i].k = k
\* d.get(k, default); for a Counter or a defaultdict read, default is the
\* value of a missing key
Get(d, k, default) ==
    IF Has(d, k) THEN d[CHOOSE i \in 1..Len(d) : d[i].k = k].v ELSE default
\* d[k] = v: an existing key keeps its position, a new key goes last
Put(d, k, v) ==
    IF Has(d, k) THEN [d EXCEPT ![CHOOSE i \in 1..Len(d) : d[i].k = k] = [k |-> k, v |-> v]]
    ELSE Append(d, [k |-> k, v |-> v])

RECURSIVE SumSeq(_)
SumSeq(s) == IF s = <<>> THEN 0 ELSE Head(s) + SumSeq(Tail(s))
\* sum(counter.values())
SumValues(d) == SumSeq([i \in 1..Len(d) |-> d[i].v])

\* max(a, b) of two integers
Max2(a, b) == IF a >= b THEN a ELSE b

\* ------------------------------------------------------------ aggregator
\* the dicts compute_artist_stats starts from
EmptyStats ==
    [artist_month_counts |-> <<>>, album_month_counts |-> <<>>,
     artist_last_play |-> <<>>, album_last_play |-> <<>>,
     artist_first_play |-> <<>>, artist_month_total_counts |-> <<>>,
     artist_total_ms |-> <<>>]

\* counts[key][mk] = plays for += plays
BumpAssign(counts, key, mk, plays) ==
    Put(counts, key, Put(Get(counts, key, <<>>), mk, plays))

\* counts[key][mk] += plays on a defaultdict(Counter)
Bump(counts, key, mk, plays) ==
    LET c == Get(counts, key, <<>>)
    IN Put(counts, key, Put(c, mk, Get(c, mk, 0) + plays))

\* the album key: the tuple (artist, album)
AlbumKey(a, al) == <<a, al>>

\* the field as it is, empty or not
OrUnknownKeep(s) == s

\* the placeholder of an empty artist or album: m["artist"] or "<unknown>"
OrUnknown(s) == IF s = "" THEN UNKNOWN ELSE s

\* the body of the loop with artist_month_total_counts[a][mk] = plays for
\* += plays
StatsStepTotalAssign(st, m) ==
    LET mk == month_key(m.ts)
        a == OrUnknown(m.artist)
        al == OrUnknown(m.album)
        key == AlbumKey(a, al)
    IN [artist_month_counts |-> Bump(st.artist_month_counts, a, mk, m.plays),
        album_month_counts |-> Bump(st.album_month_counts, key, mk, m.plays),
        artist_month_total_counts |->
            BumpAssign(st.artist_month_total_counts, a, mk, m.plays),
        artist_total_ms |->
            Put(st.artist_total_ms, a, Get(st.artist_total_ms, a, 0) + m.ms),
        artist_last_play |->
            Put(st.artist_last_play, a,
                MaxDt(Get(st.artist_last_play, a, DatetimeMin), m.ts)),
        album_last_play |->
            Put(st.album_last_play, key,
                MaxDt(Get(st.album_last_play, key, DatetimeMin), m.ts)),
        artist_first_play |->
            Put(st.artist_first_play, a,
                MinDt(Get(st.artist_first_play, a, DatetimeMax), m.ts))]

\* the body of the loop of compute_artist_stats for one event m
StatsStep(st, m) ==
    LET mk == month_key(m.ts)
        a == OrUnknown(m.artist)
        al == OrUnknown(m.album)
        key == AlbumKey(a, al)
    IN [artist_month_counts |-> Bump(st.artist_month_counts, a, mk, m.plays),
        album_month_counts |-> Bump(st.album_month_counts, key, mk, m.plays),
        artist_month_total_counts |-> Bump(st.artist_month_total_counts, a, mk, m.plays),
        artist_total_ms |->
            Put(st.artist_total_ms, a, Get(st.artist_total_ms, a, 0) + m.ms),
        artist_last_play |->
            Put(st.artist_last_play, a,
                MaxDt(Get(st.artist_last_play, a, DatetimeMin), m.ts)),
        album_last_play |->
            Put(st.album_last_play, key,
                MaxDt(Get(st.album_last_play, key, DatetimeMin), m.ts)),
        artist_first_play |->
            Put(st.artist_first_play, a,
                MinDt(Get(st.artist_first_play, a, DatetimeMax), m.ts))]

\* the loop over music[lo..hi] in order, from the dicts st.  The events are
\* taken left to right; the range is halved, and the left half evaluated
\* first (the test on left does that), to keep TLC's evaluation shallow.
RECURSIVE StatsFold(_, _, _, _)
StatsFold(music, lo, hi, st) ==
    IF lo > hi THEN st
    ELSE IF lo = hi THEN StatsStep(st, music[lo])
    ELSE LET mid == (lo + hi) \div 2
             left == StatsFold(music, lo, mid, st)
         IN IF Len(left.artist_total_ms) >= 0
            THEN StatsFold(music, mid + 1, hi, left) ELSE left

\* compute_artist_stats with its dicts kept between calls
compute_artist_stats_shared(music) == StatsFold(music, 1, Len(music), stats)

\* compute_artist_stats: one pass over the events, from empty dicts
compute_artist_stats(music) == StatsFold(music, 1, Len(music), EmptyStats)

\* ------------------------------------------------------------ sorting
\* k1 < k2 for two tuples of integers (Python's order of tuples and of
\* strings: a proper prefix is below)
RECURSIVE LexLess(_, _)
LexLess(k1, k2) ==
    IF k1 = <<>> THEN k2 # <<>>
    ELSE IF k2 = <<>> THEN FALSE
    ELSE IF Head(k1) # Head(k2) THEN Head(k1) < Head(k2)
    ELSE LexLess(Tail(k1), Tail(k2))

\* list.sort(key=...) / sorted(...): the stable sort of rows by keys[i], the
\* key of rows[i].  rows[i] lands behind the rows of a smaller key and behind
\* the earlier rows of an equal key.  (The test on pos makes TLC tabulate the
\* ranks once.)
StableSort(rows, keys) ==
    LET n == Len(rows)
        Before(j, i) == LexLess(keys[j], keys[i]) \/ (keys[j] = keys[i] /\ j < i)
        pos == [i \in 1..n |-> 1 + Cardinality({j \in 1..n : Before(j, i)})]
    IN IF pos = pos THEN [r \in 1..n |-> rows[CHOOSE i \in 1..n : pos[i] = r]]
       ELSE rows

\* sorted(S) for a set of month keys: in the order of their strings
RECURSIVE SortedSet(_)
SortedSet(S) ==
    IF S = {} THEN <<>>
    ELSE LET lo == CHOOSE x \in S : \A y \in S : MonthStr(x) <= MonthStr(y)
         IN <<lo>> \o SortedSet(S \ {lo})

\* The characters of a name as their code points, which is how Python orders
\* strings ('<' sorts before the letters, capitals before small letters).
\* The characters are those of ASCII from the space to "~"; the model has no
\* "`", which a string of TLA+ cannot hold.
AsciiLow == " !\"#$%&'()*+,-./0123456789:;<=>?@ABCDEFGHIJKLMNOPQRSTUVWXYZ[\\]^_"
AsciiHigh == "abcdefghijklmnopqrstuvwxyz{|}~"
CharCode(c) ==
    IF \E i \in 1..Len(AsciiLow) : SubSeq(AsciiLow, i, i) = c
    THEN 31 + (CHOOSE i \in 1..Len(AsciiLow) : SubSeq(AsciiLow, i, i) = c)
    ELSE 96 + (CHOOSE i \in 1..Len(AsciiHigh) : SubSeq(AsciiHigh, i, i) = c)
NameKey(s) == [i \in 1..Len(s) |-> CharCode(SubSeq(s, i, i))]

\* ------------------------------------------------------------ rounding
\* round() rounds the double it is given: the double nearest to the quotient.
\* Off a decimal tie that is the rounding of the exact quotient.  At a tie
\* the double is the exact quotient only where that is a binary fraction,
\* and round() then takes the even neighbour; otherwise the double lies
\* above or below the tie and round() follows it.

\* a / b (a >= 0, b > 0) rounded to the nearest integer, ties to even
RoundDiv(a, b) ==
    LET q == a \div b
        r == a % b
    IN IF 2 * r < b THEN q
       ELSE IF 2 * r > b THEN q + 1
       ELSE IF q % 2 = 0 THEN q ELSE q + 1

\* 2^e mod 25
RECURSIVE Pow2Mod25(_)
Pow2Mod25(e) == IF e = 0 THEN 1 ELSE (2 * Pow2Mod25(e - 1)) % 25

\* the least i with p * 2^i >= q, for 0 < p <= q: p/q lies in
\* [2^-i, 2^(1-i))
RECURSIVE ShiftToOne(_, _)
ShiftToOne(p, q) == IF p >= q THEN 0 ELSE 1 + ShiftToOne(2 * p, q)

\* round(p / q, 2), in hundredths, for 0 < p <= q (a share of a total).  At a
\* tie p/q = k/200, k odd, the 53-bit significand of p/q is
\* k * 2^(49+i) / 25 before rounding: its fraction says on which side of the
\* tie the double lies.
Round2(p, q) ==
    IF (200 * p) % q = 0 /\ ((200 * p) \div q) % 2 = 1
    THEN LET k == (200 * p) \div q
             r == (k * Pow2Mod25(49 + ShiftToOne(p, q))) % 25
         IN IF r = 0 THEN RoundDiv(100 * p, q)
            ELSE IF r > 12 THEN (k + 1) \div 2 ELSE (k - 1) \div 2
    ELSE RoundDiv(100 * p, q)

\* round(ms_sum/1000/60/60, 2), in hundredths.  At a tie (ms_sum an odd
\* multiple of 18000) the three divisions leave a double above or below it:
\* low says which.
RoundHours(ms_sum, low) ==
    IF ms_sum % 36000 = 18000
    THEN (IF low THEN ms_sum \div 36000 ELSE ms_sum \div 36000 + 1)
    ELSE RoundDiv(ms_sum, 36000)

\* ------------------------------------------------------------ z-scores
\* A z-score n / sqrt(d), d > 0.  d = 0 would be the ZeroDivisionError of a
\* division by sd = 0.
ZeroZ == [n |-> 0, d |-> 1]

\* zscore_series with the sample standard deviation, the sum of squares
\* divided by len - 1: (v - mu)/sd = (len*v - s)*(len - 1)/sqrt(len*(len -
\* 1)*(len*q - s*s))
zscore_series_sample(counter, all_months) ==
    LET len == Len(all_months)
        vals == [i \in 1..len |-> Get(counter, all_months[i], 0)]
        s == SumSeq(vals)
        q == SumSeq([i \in 1..len |-> vals[i] * vals[i]])
        var == IF len > 1 THEN len * q - s * s ELSE 0
    IN IF len = 0 THEN <<>>
       ELSE [i \in 1..len |->
                [m |-> all_months[i], v |-> vals[i],
                 z |-> IF var = 0 THEN ZeroZ
                       ELSE [n |-> (len * vals[i] - s) * (len - 1),
                             d |-> len * (len - 1) * var]]]


\* zscore_series without its test for an empty axis: mu = sum(vals) / 0
zscore_series_no_empty_test(counter, all_months) ==
    LET len == Len(all_months)
        vals == [i \in 1..len |-> Get(counter, all_months[i], 0)]
        s == SumSeq(vals)
        q == SumSeq([i \in 1..len |-> vals[i] * vals[i]])
        var == IF len > 1 THEN len * q - s * s ELSE 0
    IN IF len = 0 THEN <<[m |-> 0, v |-> 0, z |-> [n |-> 0, d |-> 0]]>>
       ELSE [i \in 1..len |->
                [m |-> all_months[i], v |-> vals[i],
                 z |-> IF var = 0 THEN ZeroZ
                       ELSE [n |-> len * vals[i] - s, d |-> var]]]

\* zscore_series without its test sd == 0: the division by sd = 0
zscore_series_unguarded(counter, all_months) ==
    LET len == Len(all_months)
        vals == [i \in 1..len |-> Get(counter, all_months[i], 0)]
        s == SumSeq(vals)
        q == SumSeq([i \in 1..len |-> vals[i] * vals[i]])
        var == IF len > 1 THEN len * q - s * s ELSE 0
    IN IF len = 0 THEN <<>>
       ELSE [i \in 1..len |->
                [m |-> all_months[i], v |-> vals[i],
                 z |-> [n |-> len * vals[i] - s, d |-> var]]]

\* zscore_series: for every month of the axis, in axis order, the count and
\* its z-score; {} for an empty axis.  With len = Len(all_months), s the sum
\* and q the sum of squares of vals: mu = s/len, var = (len*q - s*s)/len^2,
\* (v - mu)/sd = (len*v - s)/sqrt(len*q - s*s).
zscore_series(counter, all_months) ==
    LET len == Len(all_months)
        vals == [i \in 1..len |-> Get(counter, all_months[i], 0)]
        s == SumSeq(vals)
        q == SumSeq([i \in 1..len |-> vals[i] * vals[i]])
        var == IF len > 1 THEN len * q - s * s ELSE 0
    IN IF len = 0 THEN <<>>
       ELSE [i \in 1..len |->
                [m |-> all_months[i], v |-> vals[i],
                 z |-> IF var = 0 THEN ZeroZ
                       ELSE [n |-> len * vals[i] - s, d |-> var]]]

\* z >= SPIKE_Z on the computed double.  Away from the threshold the double
\* decides as the exact value does.  Where (v - mu)/sd is exactly SPIKE_Z the
\* double may be SPIKE_Z or the double just below it (62 plays in one month of
\* a five-month axis give 1.9999999999999998, 60 plays give 2.0): low says
\* which.
ZGeSpike(z, low) ==
    /\ z.n > 0
    /\ \/ z.n * z.n > SPIKE_Z * SPIKE_Z * z.d
       \/ z.n * z.n = SPIKE_Z * SPIKE_Z * z.d /\ ~low

\* the integer square root of x, the hundreds first; 46340 is the root of the
\* largest square below 2^31
Isqrt(x) ==
    LET a == CHOOSE c \in 0..462 :
                 /\ (100 * c) * (100 * c) <= x
                 /\ c < 462 => x < (100 * (c + 1)) * (100 * (c + 1))
    IN CHOOSE c \in (100 * a)..(IF a = 462 THEN 46340 ELSE 100 * a + 99) :
           /\ c * c <= x
           /\ c < 46340 => x < (c + 1) * (c + 1)

\* 10^4 * n^2 / d for z > 0, as its whole part fl and the remainder r of the
\* division by d: 100 * z is sqrt(fl + r/d)
ZSquared(z) ==
    LET n2 == z.n * z.n
        q0 == n2 \div z.d
        r0 == n2 % z.d
        q1 == (100 * r0) \div z.d
        r1 == (100 * r0) % z.d
        q2 == (100 * r1) \div z.d
        r2 == (100 * r1) % z.d
    IN [fl |-> 10000 * q0 + 100 * q1 + q2, r |-> r2]

\* z lies halfway between two hundredths: (k + 1/2)^2 = k*k + k + 1/4
RoundZTie(z) ==
    LET x == ZSquared(z)
        k == Isqrt(x.fl)
    IN x.fl = k * k + k /\ 4 * x.r = z.d

\* round(z, 2) in hundredths, for z > 0: the integer nearest to 100 * z.  Where
\* z lies halfway between two hundredths, round() sees the computed double:
\* the double below the half gives the lower hundredth (27/8 is computed as
\* 3.3749999999999996 and gives 3.37), the half itself goes to the even
\* hundredth (3.125 gives 3.12) and the double above it gives the upper one;
\* low says that the lower hundredth is taken.
RoundZ(z, low) ==
    LET x == ZSquared(z)
        k == Isqrt(x.fl)
    IN IF x.fl > k * k + k THEN k + 1
       ELSE IF x.fl < k * k + k THEN k
       ELSE IF 4 * x.r > z.d THEN k + 1
       ELSE IF 4 * x.r < z.d THEN k
       ELSE IF low THEN k ELSE k + 1

\* ------------------------------------------------------------ spikes
RECURSIVE Flatten(_)
Flatten(ss) == IF ss = <<>> THEN <<>> ELSE Head(ss) \o Flatten(Tail(ss))

\* all_months: sorted({month for counts in artist_month_counts.values()
\*                     for month in counts})
AllMonths(artist_month_counts) ==
    SortedSet(UNION {Keys(artist_month_counts[i].v) :
                        i \in 1..Len(artist_month_counts)})

\* what the double (v - mu)/sd of the entry e of zs is computed from: vals,
\* in the order the sums add them, and the count
FpPoint(zs, e) == <<[i \in 1..Len(zs) |-> zs[i].v], e.v>>

\* the rows one entity adds to a spike list, before the sort; low holds the
\* points whose double falls on the low side: below the threshold SPIKE_Z, or
\* to the lower hundredth at a tie of round()
SpikeRowsOf(key, monthly, all_months, floor, low) ==
    LET zs == zscore_series(monthly, all_months)
        Hit(e) == e.v >= floor /\ ZGeSpike(e.z, FpPoint(zs, e) \in low)
        hits == SelectSeq(zs, Hit)
    IN [i \in 1..Len(hits) |->
           [m |-> hits[i].m, key |-> key, v |-> hits[i].v,
            z |-> RoundZ(hits[i].z, FpPoint(zs, hits[i]) \in low)]]

SpikeList(counts, all_months, floor, low) ==
    LET rows == Flatten([i \in 1..Len(counts) |->
                    SpikeRowsOf(counts[i].k, counts[i].v, all_months, floor, low)])
    IN StableSort(rows, [i \in 1..Len(rows) |-> <<MonthStr(rows[i].m), -rows[i].v>>])

\* analyze_spikes: (spikes_artist, spikes_album); a row is (month, artist, v,
\* round(z, 2)) or (month, artist, album, v, round(z, 2)), key holding the
\* artist or the (artist, album) pair; low as in SpikeRowsOf
analyze_spikes(artist_month_counts, album_month_counts, low) ==
    LET all_months == AllMonths(artist_month_counts)
    IN [artist |-> SpikeList(artist_month_counts, all_months, SPIKE_MIN_PLAYS, low),
        album |-> SpikeList(album_month_counts, all_months, AlbumSpikeFloor, low)]

\* ------------------------------------------------------------ drop-offs
\* (a - b).days: the whole days of the timedelta a - b, which is normalized
\* to days and a time of day that is not negative
DaysBetween(a, b) ==
    (a.day - b.day) - (IF a.sec < b.sec \/ (a.sec = b.sec /\ a.us < b.us) THEN 1 ELSE 0)

\* months_since counted in days, thirty to a month
months_since_days(dt, now) == DaysBetween(now, dt) \div 30

\* months_since, against the clock value now that datetime.now() returns
months_since(dt, now) == (YearOf(now) - YearOf(dt)) * 12 + (MonthOf(now) - MonthOf(dt))

\* max(counter.items(), key=lambda kv: kv[1]): the first item, in insertion
\* order, whose count is the greatest
PeakIndex(counter) ==
    CHOOSE i \in 1..Len(counter) :
        /\ \A j \in 1..Len(counter) : counter[j].v <= counter[i].v
        /\ \A j \in 1..(i - 1) : counter[j].v < counter[i].v

\* the tests of qualifies_dropoff before months_since without the one on
\* DROP_PEAK_MIN_PLAYS
ReachesClockNoFloor(counter, last_play_dt) ==
    LET lifetime == SumValues(counter)
    IN /\ lifetime # 0
       /\ 100 * counter[PeakIndex(counter)].v >= DROP_PEAK_SHARE_PCT * lifetime
       /\ last_play_dt # NoneDt

\* whether qualifies_dropoff reaches its call of months_since, and so reads
\* the clock
ReachesClock(counter, last_play_dt) ==
    LET lifetime == SumValues(counter)
    IN /\ lifetime # 0
       /\ counter[PeakIndex(counter)].v >= DROP_PEAK_MIN_PLAYS
       /\ 100 * counter[PeakIndex(counter)].v >= DROP_PEAK_SHARE_PCT * lifetime
       /\ last_play_dt # NoneDt

\* qualifies_dropoff: <<peak_m, peak_v, lifetime>>, or <<>> for None
qualifies_dropoff(counter, last_play_dt, now) ==
    IF ReachesClock(counter, last_play_dt)
       /\ months_since(last_play_dt, now) >= DROP_RECENT_SILENCE_M
    THEN LET p == counter[PeakIndex(counter)]
         IN <<p.k, p.v, SumValues(counter)>>
    ELSE <<>>

\* the rows the body of a loop of analyze_dropoffs appends for one entity:
\* (entity, peak_m, peak_v, lifetime, round(share, 2))
DropRowsOf(key, monthly, last_play_dt, now) ==
    LET res == qualifies_dropoff(monthly, last_play_dt, now)
    IN IF res = <<>> THEN <<>>
       ELSE <<[key |-> key, peak_m |-> res[1], peak_v |-> res[2],
               lifetime |-> res[3], share |-> Round2(res[2], res[3])]>>


\* drop_artists.sort(key=lambda x: (x[1], -x[4])), and the same for albums
SortDrops(rows) ==
    StableSort(rows, [i \in 1..Len(rows) |-> <<MonthStr(rows[i].peak_m), -rows[i].share>>])

\* ------------------------------------------------------------ dormancy
\* the row of one artist with the test made on the dormant years as the row
\* shows them, rounded to a tenth
GripRowsOfRounded(a, ms_sum, artist_last_play, now, low) ==
    LET last_dt == Get(artist_last_play, a, DatetimeMin)
        days == DaysBetween(now, last_dt)
    IN IF ms_sum >= GRIP_MIN_HOURS * MsPerHour
          /\ RoundDiv(40 * days, 1461) >= 10 * GRIP_DORMANT_YEARS
       THEN <<[a |-> a, hours |-> RoundHours(ms_sum, ms_sum \in low),
               years |-> RoundDiv(40 * days, 1461), last |-> DateOf(last_dt)]>>
       ELSE <<>>

\* the row of one artist, or nothing: hours >= GRIP_MIN_HOURS and
\* days / 365.25 >= GRIP_DORMANT_YEARS; the row is (artist, round(hours, 2),
\* round(dormant_years, 1), last_dt.date().isoformat())
GripRowsOf(a, ms_sum, artist_last_play, now, low) ==
    LET last_dt == Get(artist_last_play, a, DatetimeMin)
        days == DaysBetween(now, last_dt)
    IN IF ms_sum >= GRIP_MIN_HOURS * MsPerHour /\ 4 * days >= GRIP_DORMANT_YEARS * 1461
       THEN <<[a |-> a, hours |-> RoundHours(ms_sum, ms_sum \in low),
               years |-> RoundDiv(40 * days, 1461), last |-> DateOf(last_dt)]>>
       ELSE <<>>

\* analyze_dormant_artists, with now the one clock value it reads and low
\* the sums of ms whose hours the doubles leave below a tie of round()
analyze_dormant_artists(artist_total_ms, artist_last_play, now, low) ==
    LET rows == Flatten([i \in 1..Len(artist_total_ms) |->
                    GripRowsOf(artist_total_ms[i].k, artist_total_ms[i].v,
                               artist_last_play, now, low)])
    IN StableSort(rows, [i \in 1..Len(rows) |->
                    <<-rows[i].years, -rows[i].hours>> \o NameKey(rows[i].a)])

\* ------------------------------------------------------------ obsessions
\* album_datetimes: (artist, album) -> the timestamps of its events in input
\* order
DatetimesStep(acc, m) ==
    LET key == AlbumKey(OrUnknown(m.artist), OrUnknown(m.album))
    IN Put(acc, key, Append(Get(acc, key, <<>>), m.ts))

RECURSIVE DatetimesFold(_, _, _, _)
DatetimesFold(music, lo, hi, acc) ==
    IF lo > hi THEN acc
    ELSE IF lo = hi THEN DatetimesStep(acc, music[lo])
    ELSE LET mid == (lo + hi) \div 2
             left == DatetimesFold(music, lo, mid, acc)
         IN IF Len(left) >= 0 THEN DatetimesFold(music, mid + 1, hi, left) ELSE left

AlbumDatetimes(music) == DatetimesFold(music, 1, Len(music), <<>>)

\* sorted(times): equal datetimes are one value, so the sorted list holds,
\* for each value t of the list, t at the ranks from below[t] + 1 to upto[t],
\* the numbers of the timestamps before t and up to t.  (The test on below
\* and upto makes TLC tabulate them once.)
SortTimes(times) ==
    LET n == Len(times)
        vals == {times[i] : i \in 1..n}
        below == [t \in vals |-> Cardinality({i \in 1..n : DtLess(times[i], t)})]
        upto == [t \in vals |-> Cardinality({i \in 1..n : DtLe(times[i], t)})]
    IN IF below = below /\ upto = upto
       THEN [r \in 1..n |-> CHOOSE t \in vals : below[t] < r /\ r <= upto[t]]
       ELSE times

\* the while loop left out: the left end of the window stays where it is
AdvanceLeftNever(times, j, i, window) == i

\* the while loop with >= for >
RECURSIVE AdvanceLeftGe(_, _, _, _)
AdvanceLeftGe(times, j, i, window) ==
    IF i < j /\ DtLe(PlusDays(times[i], window), times[j])
    THEN AdvanceLeftGe(times, j, i + 1, window) ELSE i

\* while times[j] - times[i] > window: i += 1, window = timedelta(days=60)
\* given in days
RECURSIVE AdvanceLeft(_, _, _, _)
AdvanceLeft(times, j, i, window) ==
    IF DtLess(PlusDays(times[i], window), times[j])
    THEN AdvanceLeft(times, j, i + 1, window) ELSE i

\* the body of the for loop with best = j - i + 1 for best = max(best, ...):
\* the size of the last window
ScanStepLast(times, j, st, window) ==
    LET i2 == AdvanceLeft(times, j, st.i, window)
    IN [i |-> i2, best |-> j - i2 + 1]

\* the body of the for loop with the count j - i for j - i + 1
ScanStepExclusive(times, j, st, window) ==
    LET i2 == AdvanceLeft(times, j, st.i, window)
    IN [i |-> i2, best |-> Max2(st.best, j - i2)]


\* the body of the for loop for one j (indices from 1; the count j - i + 1
\* is the same)
ScanStep(times, j, st, window) ==
    LET i2 == AdvanceLeft(times, j, st.i, window)
    IN [i |-> i2, best |-> Max2(st.best, j - i2 + 1)]

\* the for loop over j in lo..hi, from the state st = [i, best]
RECURSIVE ScanFold(_, _, _, _, _)
ScanFold(times, lo, hi, st, window) ==
    IF lo > hi THEN st
    ELSE IF lo = hi THEN ScanStep(times, lo, st, window)
    ELSE LET mid == (lo + hi) \div 2
             left == ScanFold(times, lo, mid, st, window)
         IN IF left.best >= 0 THEN ScanFold(times, mid + 1, hi, left, window) ELSE left

\* the two-pointer scan: the greatest number of timestamps whose first and
\* last are at most window apart
SlidingBest(times, window) ==
    ScanFold(times, 1, Len(times), [i |-> 1, best |-> 0], window).best

\* the scan over one artist's albums for month mk: [album, plays], album
\* NoAlbum when no album has a play in mk
NoAlbum == ""
\* the scan with an album's plays of all months for its plays of month mk
RECURSIVE DominantFromLifetime(_, _, _, _, _)
DominantFromLifetime(album_month_counts, i, a, mk, dom) ==
    IF i > Len(album_month_counts) THEN dom
    ELSE LET e == album_month_counts[i]
             p == SumValues(e.v)
         IN DominantFromLifetime(album_month_counts, i + 1, a, mk,
                IF e.k[1] = a /\ p > dom.plays
                THEN [album |-> e.k[2], plays |-> p] ELSE dom)

RECURSIVE DominantFrom(_, _, _, _, _)
DominantFrom(album_month_counts, i, a, mk, dom) ==
    IF i > Len(album_month_counts) THEN dom
    ELSE LET e == album_month_counts[i]
             p == Get(e.v, mk, 0)
         IN DominantFrom(album_month_counts, i + 1, a, mk,
                IF e.k[1] = a /\ p > dom.plays
                THEN [album |-> e.k[2], plays |-> p] ELSE dom)

dominant_album(album_month_counts, a, mk) ==
    DominantFrom(album_month_counts, 1, a, mk, [album |-> NoAlbum, plays |-> 0])

\* the dominance test with a half of the artist's plays of the month for 80%
PassesDominanceHalf(plays, artist_month_total) == 2 * plays >= artist_month_total

\* dominant_plays / artist_month_total >= ALBUM_DOMINANCE_PCT
PassesDominance(plays, artist_month_total) ==
    100 * plays >= ALBUM_DOMINANCE_PCT * artist_month_total

\* the row of one (artist, month), or nothing
ObsessionRowsOf(a, mk, artist_month_total, album_month_counts, album_datetimes) ==
    IF artist_month_total < ALBUM_MIN_MONTH_PLAYS THEN <<>>
    ELSE LET dom == dominant_album(album_month_counts, a, mk)
         IN IF dom.album = NoAlbum
               \/ ~PassesDominance(dom.plays, artist_month_total)
            THEN <<>>
            ELSE LET key == AlbumKey(a, dom.album)
                     times == SortTimes(Get(album_datetimes, key, <<>>))
                     best == SlidingBest(times, WINDOW_DAYS)
                     life == SumValues(Get(album_month_counts, key, <<>>))
                 IN IF life > 0 /\ 100 * best >= ALBUM_CONCENTRATION_PCT * life
                    THEN <<[mk |-> mk, a |-> a, album |-> dom.album,
                            dominant_plays |-> dom.plays,
                            artist_month_total |-> artist_month_total,
                            life |-> life, conc |-> Round2(best, life)]>>
                    ELSE <<>>


\* the de-duplication: the first row of every (artist, album) pair
RECURSIVE DedupFrom(_, _, _, _)
DedupFrom(rows, i, seen, acc) ==
    IF i > Len(rows) THEN acc
    ELSE LET key == AlbumKey(rows[i].a, rows[i].album)
         IN IF key \in seen THEN DedupFrom(rows, i + 1, seen, acc)
            ELSE DedupFrom(rows, i + 1, seen \cup {key}, Append(acc, rows[i]))

\* analyze_one_album_obsessions
analyze_one_album_obsessions(music, artist_month_total_counts, album_month_counts) ==
    LET album_datetimes == AlbumDatetimes(music)
        one_album ==
            Flatten([i \in 1..Len(artist_month_total_counts) |->
                Flatten([j \in 1..Len(artist_month_total_counts[i].v) |->
                    ObsessionRowsOf(artist_month_total_counts[i].k,
                                    artist_month_total_counts[i].v[j].k,
                                    artist_month_total_counts[i].v[j].v,
                                    album_month_counts, album_datetimes)])])
        sorted == StableSort(one_album,
                             [i \in 1..Len(one_album) |-> <<MonthStr(one_album[i].mk)>>])
    IN DedupFrom(sorted, 1, {}, <<>>)

\* ------------------------------------------------------------ reads
\* What the reads of the detectors leave in the aggregates.  The drop-off
\* and the dormancy detector iterate over the dicts and read them with
\* .get(), which stores nothing; the other two index them.

\* counter[m] read as a defaultdict(int) would read it: a missing month is
\* stored with the count 0
CounterIndexedStoring(counter, m) ==
    IF Has(counter, m) THEN counter ELSE Put(counter, m, 0)

\* the counter after counter[m]: Counter.__missing__ answers 0 for a missing
\* month and stores nothing
CounterIndexed(counter, m) == counter

\* the counter after zscore_series has read counter[m] for the months
\* all_months[i..]
RECURSIVE IndexedAll(_, _, _)
IndexedAll(counter, all_months, i) ==
    IF i > Len(all_months) THEN counter
    ELSE IndexedAll(CounterIndexed(counter, all_months[i]), all_months, i + 1)

\* a dict of series after a loop of analyze_spikes has passed each of them
\* to zscore_series
SeriesAfterSpikes(counts, all_months) ==
    [i \in 1..Len(counts) |->
        [k |-> counts[i].k, v |-> IndexedAll(counts[i].v, all_months, 1)]]

\* the aggregates after analyze_spikes; all_months is built before the loops
StatsAfterSpikes(st) ==
    LET all_months == AllMonths(st.artist_month_counts)
    IN [st EXCEPT !.artist_month_counts = SeriesAfterSpikes(@, all_months),
                  !.album_month_counts = SeriesAfterSpikes(@, all_months)]

\* the defaultdict(Counter) d after d[key]: a missing key is stored with an
\* empty Counter
DefaultdictIndexed(d, key) == IF Has(d, key) THEN d ELSE Put(d, key, <<>>)

\* the keys analyze_one_album_obsessions looks up in album_month_counts for
\* its lifetime sums, one for every (artist, month) that passes the
\* dominance test, in the order of the loops
LookedUp(artist_month_total_counts, album_month_counts) ==
    Flatten([i \in 1..Len(artist_month_total_counts) |->
        Flatten([j \in 1..Len(artist_month_total_counts[i].v) |->
            LET a == artist_month_total_counts[i].k
                e == artist_month_total_counts[i].v[j]
                dom == dominant_album(album_month_counts, a, e.k)
            IN IF e.v < ALBUM_MIN_MONTH_PLAYS \/ dom.album = NoAlbum
                  \/ 100 * dom.plays < ALBUM_DOMINANCE_PCT * e.v
               THEN <<>> ELSE <<AlbumKey(a, dom.album)>>])])

RECURSIVE IndexedKeys(_, _, _)
IndexedKeys(d, keys, i) ==
    IF i > Len(keys) THEN d
    ELSE IndexedKeys(DefaultdictIndexed(d, keys[i]), keys, i + 1)

\* the aggregates after analyze_one_album_obsessions
StatsAfterObsessions(st) ==
    [st EXCEPT !.album_month_counts =
        IndexedKeys(@, LookedUp(st.artist_month_total_counts, @), 1)]

\* ------------------------------------------------------------ the pipeline
\* The calls of the pipeline, one action each, in the order main makes them.
\* analyze_dropoffs reads the clock once for each entity that reaches
\* months_since, analyze_dormant_artists once; the clock advances before any
\* of these reads.

MaxBg == 4        \* background months of a scenario
MaxTicks == 1     \* advances of the clock in a behaviour
MaxTail == 1      \* raw records behind the first one

EmptyOut ==
    [spikes_artist |-> <<>>, spikes_album |-> <<>>,
     drop_artists |-> <<>>, drop_albums |-> <<>>,
     grip_artists |-> <<>>, one_album |-> <<>>]

EmptyDrops == [artists |-> <<>>, albums |-> <<>>]

\* the clock at the start: the last minute of January 2022
Now0 == Utc(2022, 1, 31, 23, 59)

\* the clock advances by a minute
Tick ==
    /\ pc \in {"dropoffs", "dormant"}
    /\ ticks < MaxTicks
    /\ clock' = PlusSeconds(clock, 60)
    /\ ticks' = ticks + 1
    /\ UNCHANGED <<in_rows, in_min_ms, in_exclude, events, stats, fp_low, pc,
                   cursor, drop_acc, out, run, prev>>

\* music = filter_music_rows(rows, min_ms, exclude_podcasts) returns
FilterMusicRows ==
    /\ pc = "filter"
    /\ ~filter_music_rows(in_rows, in_min_ms, in_exclude).raised
    /\ events' = filter_music_rows(in_rows, in_min_ms, in_exclude).music
    /\ pc' = "aggregate"
    /\ UNCHANGED <<in_rows, in_min_ms, in_exclude, stats, clock, ticks, fp_low,
                   cursor, drop_acc, out, run, prev>>

\* filter_music_rows raises: the exception leaves the program
FilterRaises ==
    /\ pc = "filter"
    /\ filter_music_rows(in_rows, in_min_ms, in_exclude).raised
    /\ pc' = "crashed"
    /\ UNCHANGED <<in_rows, in_min_ms, in_exclude, events, stats, clock, ticks,
                   fp_low, cursor, drop_acc, out, run, prev>>

\* stats = compute_artist_stats(music)
ComputeArtistStats ==
    /\ pc = "aggregate"
    /\ stats' = compute_artist_stats(events)
    /\ pc' = "spikes"
    /\ UNCHANGED <<in_rows, in_min_ms, in_exclude, events, clock, ticks, fp_low,
                   cursor, drop_acc, out, run, prev>>

\* the points where the doubles decide a spike row: the counts at or above
\* their floor whose z-score is SPIKE_Z exactly, or is above it and halfway
\* between two hundredths
ThresholdPoints(artist_month_counts, album_month_counts) ==
    LET all_months == AllMonths(artist_month_counts)
        At(counts, floor) ==
            UNION {LET zs == zscore_series(counts[i].v, all_months)
                   IN {FpPoint(zs, zs[j]) : j \in {j \in 1..Len(zs) :
                            /\ zs[j].v >= floor
                            /\ ZGeSpike(zs[j].z, FALSE)
                            /\ ~ZGeSpike(zs[j].z, TRUE) \/ RoundZTie(zs[j].z)}}
                   : i \in 1..Len(counts)}
    IN At(artist_month_counts, SPIKE_MIN_PLAYS) \cup At(album_month_counts, AlbumSpikeFloor)

\* the sums of ms where the doubles decide the hours: the ties of round()
TieSums(artist_total_ms) ==
    {artist_total_ms[i].v : i \in {i \in 1..Len(artist_total_ms) :
                                      artist_total_ms[i].v % 36000 = 18000}}

\* spikes_artist, spikes_album = analyze_spikes(...).  Where the doubles
\* decide, the first run finds which way the doubles of these events round;
\* a second run computes the same doubles.
AnalyzeSpikes ==
    /\ pc = "spikes"
    /\ \E low \in (IF run = 1
                    THEN [z : SUBSET ThresholdPoints(stats.artist_month_counts,
                                                     stats.album_month_counts),
                          h : SUBSET TieSums(stats.artist_total_ms)]
                    ELSE {fp_low}) :
        /\ fp_low' = low
        /\ LET res == analyze_spikes(stats.artist_month_counts,
                                     stats.album_month_counts, low.z)
           IN out' = [out EXCEPT !.spikes_artist = res.artist,
                                 !.spikes_album = res.album]
    /\ stats' = StatsAfterSpikes(stats)
    /\ pc' = "dropoffs"
    /\ cursor' = 1
    /\ drop_acc' = EmptyDrops
    /\ UNCHANGED <<in_rows, in_min_ms, in_exclude, events, clock, ticks, run, prev>>

\* analyze_dropoffs, one pass of its loops: the artists in the order of
\* artist_month_counts, then the albums in the order of album_month_counts.
\* The entity is judged against the clock as it stands at this pass.
DropoffStep ==
    /\ pc = "dropoffs"
    /\ cursor <= Len(stats.artist_month_counts) + Len(stats.album_month_counts)
    /\ LET na == Len(stats.artist_month_counts)
       IN drop_acc' =
            IF cursor <= na
            THEN LET e == stats.artist_month_counts[cursor]
                 IN [drop_acc EXCEPT !.artists = @ \o
                        DropRowsOf(e.k, e.v,
                            Get(stats.artist_last_play, e.k, NoneDt), clock)]
            ELSE LET e == stats.album_month_counts[cursor - na]
                 IN [drop_acc EXCEPT !.albums = @ \o
                        DropRowsOf(e.k, e.v,
                            Get(stats.album_last_play, e.k, NoneDt), clock)]
    /\ cursor' = cursor + 1
    /\ UNCHANGED <<in_rows, in_min_ms, in_exclude, events, stats, clock, ticks,
                   fp_low, pc, out, run, prev>>

\* analyze_dropoffs sorts its two lists and returns them (the code sorts
\* drop_artists between its two loops; the loop over the albums does not
\* touch that list)
DropoffReturn ==
    /\ pc = "dropoffs"
    /\ cursor > Len(stats.artist_month_counts) + Len(stats.album_month_counts)
    /\ out' = [out EXCEPT !.drop_artists = SortDrops(drop_acc.artists),
                          !.drop_albums = SortDrops(drop_acc.albums)]
    /\ pc' = "dormant"
    /\ UNCHANGED <<in_rows, in_min_ms, in_exclude, events, stats, clock, ticks,
                   fp_low, cursor, drop_acc, run, prev>>

\* grip_artists = analyze_dormant_artists(...)
AnalyzeDormant ==
    /\ pc = "dormant"
    /\ out' = [out EXCEPT !.grip_artists =
                analyze_dormant_artists(stats.artist_total_ms,
                                        stats.artist_last_play, clock, fp_low.h)]
    /\ pc' = "obsessions"
    /\ UNCHANGED <<in_rows, in_min_ms, in_exclude, events, stats, clock, ticks,
                   fp_low, cursor, drop_acc, run, prev>>

\* one_album = analyze_one_album_obsessions(...)
AnalyzeObsessions ==
    /\ pc = "obsessions"
    /\ out' = [out EXCEPT !.one_album =
                analyze_one_album_obsessions(events,
                    stats.artist_month_total_counts, stats.album_month_counts)]
    /\ stats' = StatsAfterObsessions(stats)
    /\ pc' = "done"
    /\ UNCHANGED <<in_rows, in_min_ms, in_exclude, events, clock, ticks,
                   fp_low, cursor, drop_acc, run, prev>>

\* the pipeline is run again on the same events; the dicts and lists of the
\* first run stay where they are, the second run builds its own
Rerun ==
    /\ pc = "done"
    /\ run = 1
    /\ prev' = out
    /\ out' = EmptyOut
    /\ run' = 2
    /\ pc' = "aggregate"
    /\ UNCHANGED <<in_rows, in_min_ms, in_exclude, events, stats, clock, ticks,
                   fp_low, cursor, drop_acc>>

\* ------------------------------------------------------------ scenarios
\* The listening histories the pipeline is started on.  A focal artist "A"
\* plays the album "X" p times in November 2019; a background of b plays in
\* each of the next nbg months, by "A" itself or by another artist "C"; and
\* one more block of plays.  The months straddle the thresholds against the
\* clock: a last play in February 2020 is 23 months back at Now0 and 24 a
\* minute later, and 730 and 731 days.

PeakSet == {0, 19, 20, 30, 59, 60, 62}
BgSet == {1, 15, 30}
BgArtists == {"A", "C"}
\* three minutes a play: 60 plays are GRIP_MIN_HOURS
PlayMsSet == {180000}

Ev(ts, ms, track, album, artist) ==
    [ts |-> ts, ms |-> ms, track |-> track, album |-> album, artist |-> artist,
     plays |-> 1]

Rep(e, n) == [i \in 1..n |-> e]

\* the instant of the plays of month i of a scenario
Slot(i) ==
    IF i = 1 THEN Utc(2019, 11, 15, 12, 0)
    ELSE IF i = 2 THEN Utc(2019, 12, 15, 12, 0)
    ELSE IF i = 3 THEN Utc(2020, 1, 31, 23, 59)
    ELSE IF i = 4 THEN Utc(2020, 2, 1, 0, 0)
    ELSE Utc(2020, i - 2, 10, 8, 0)

\* the block of plays that ends a scenario
\* (block 4 comes last in the list and first in time: 20 plays of the focal
\* album sixty days to the minute before the plays of Slot(1))
ExtraSet == 0..4
ExtraBlock(x, ms) ==
    IF x = 1 THEN Rep(Ev(Utc(2019, 11, 20, 9, 0), ms, "U", "Y", "A"), 5)
    ELSE IF x = 2 THEN Rep(Ev(Utc(2021, 6, 1, 0, 0), ms, "", "", ""), 1)
    ELSE IF x = 3 THEN Rep(Ev(Utc(2020, 1, 15, 9, 0), ms, "V", "Y", "B"), 20)
    ELSE IF x = 4 THEN Rep(Ev(Utc(2019, 9, 16, 12, 0), ms, "T", "X", "A"), 20)
    ELSE <<>>

Scenario(p, nbg, b, art, x, ms) ==
    Rep(Ev(Slot(1), ms, "T", "X", "A"), p)
    \o Flatten([i \in 1..nbg |->
            Rep(Ev(Slot(i + 1), ms, "T", IF art = "A" THEN "X" ELSE "Z", art), b)])
    \o ExtraBlock(x, ms)

\* the pipeline is about to run on a list of normalized events
Init ==
    /\ \E p \in PeakSet, nbg \in 0..MaxBg, b \in BgSet, art \in BgArtists,
          x \in ExtraSet, ms \in PlayMsSet :
            events = Scenario(p, nbg, b, art, x, ms)
    /\ in_rows = <<>>
    /\ in_min_ms = MIN_MS
    /\ in_exclude = FALSE
    /\ stats = EmptyStats
    /\ clock = Now0
    /\ ticks = 0
    /\ fp_low = [z |-> {}, h |-> {}]
    /\ pc = "aggregate"
    /\ cursor = 1
    /\ drop_acc = EmptyDrops
    /\ out = EmptyOut
    /\ run = 1
    /\ prev = EmptyOut

Next ==
    \/ Tick
    \/ ComputeArtistStats
    \/ AnalyzeSpikes
    \/ DropoffStep
    \/ DropoffReturn
    \/ AnalyzeDormant
    \/ AnalyzeObsessions
    \/ Rerun

Spec == Init /\ [][Next]_vars

\* ------------------------------------------------------------ short histories
\* Histories of a few blocks of plays, in any order and with repetition, for
\* the aggregator and the detectors: two artists, events without artist or
\* album, listening times on both sides of GRIP_MIN_HOURS and last plays on
\* both sides of GRIP_DORMANT_YEARS against the clock.

MaxBlocks == 3    \* blocks of a short history

\* the sequences of at most n elements of S
RECURSIVE SeqsUpTo(_, _)
SeqsUpTo(S, n) ==
    IF n = 0 THEN {<<>>}
    ELSE SeqsUpTo(S, n - 1) \cup {Append(q, x) : q \in SeqsUpTo(S, n - 1), x \in S}

\* block 1: 20 plays of 9 minutes, 3.0 hours, last 808 days before Now0;
\* block 2: 20 plays of 9 minutes 10 seconds, 3.06 hours, 798 days;
\* block 3: 5 plays of 10 seconds, 730 days before Now0 and 731 a minute
\*          later, 23 and 24 months;
\* block 4: one play of 2 h 59 min 50 s (3.0 hours when rounded), 731 days;
\* block 5: 20 plays of 9 minutes, 868 days;
\* blocks 6 to 8: 20 plays of 9 minutes on the last day of the year 999 and
\*          on the first day of the year 1000, timestamps parse_ts accepts
\*          ("0999-12-31T12:00:00Z") and month_key prints as "999-12" and
\*          "1000-01"
BlockSet == 1..5
Block(k) ==
    IF k = 1 THEN Rep(Ev(Utc(2019, 11, 15, 12, 0), 540000, "T", "X", "A"), 20)
    ELSE IF k = 2 THEN Rep(Ev(Utc(2019, 11, 25, 12, 0), 550000, "V", "Y", "B"), 20)
    ELSE IF k = 3 THEN Rep(Ev(Utc(2020, 2, 1, 0, 0), 10000, "U", "", "A"), 5)
    ELSE IF k = 4 THEN Rep(Ev(Utc(2020, 1, 31, 23, 59), 10790000, "W", "", ""), 1)
    ELSE IF k = 5 THEN Rep(Ev(Utc(2019, 9, 16, 12, 0), 540000, "T", "X", ""), 20)
    ELSE IF k = 6 THEN Rep(Ev(Utc(999, 12, 31, 12, 0), 540000, "T", "X", "A"), 20)
    ELSE IF k = 7 THEN Rep(Ev(Utc(1000, 1, 1, 12, 0), 540000, "T", "X", "A"), 20)
    ELSE Rep(Ev(Utc(1000, 1, 1, 12, 0), 540000, "V", "Y", "B"), 20)

\* the pipeline is about to run on a short history
InitShort ==
    /\ \E ks \in SeqsUpTo(BlockSet, MaxBlocks) :
            events = Flatten([i \in 1..Len(ks) |-> Block(ks[i])])
    /\ in_rows = <<>>
    /\ in_min_ms = MIN_MS
    /\ in_exclude = FALSE
    /\ stats = EmptyStats
    /\ clock = Now0
    /\ ticks = 0
    /\ fp_low = [z |-> {}, h |-> {}]
    /\ pc = "aggregate"
    /\ cursor = 1
    /\ drop_acc = EmptyDrops
    /\ out = EmptyOut
    /\ run = 1
    /\ prev = EmptyOut

SpecShort == InitShort /\ [][Next]_vars

\* ------------------------------------------------------------ early years
\* Short histories with plays on both sides of the turn of the year 1000,
\* where the month keys the code sorts and compares, the strings "999-12"
\* and "1000-01", are not in the order of the calendar.

YearBlockSet == {1, 6, 7, 8}

\* the pipeline is about to run on a short history with early years
InitYears ==
    /\ \E ks \in SeqsUpTo(YearBlockSet, MaxBlocks) :
            events = Flatten([i \in 1..Len(ks) |-> Block(ks[i])])
    /\ in_rows = <<>>
    /\ in_min_ms = MIN_MS
    /\ in_exclude = FALSE
    /\ stats = EmptyStats
    /\ clock = Now0
    /\ ticks = 0
    /\ fp_low = [z |-> {}, h |-> {}]
    /\ pc = "aggregate"
    /\ cursor = 1
    /\ drop_acc = EmptyDrops
    /\ out = EmptyOut
    /\ run = 1
    /\ prev = EmptyOut

SpecYears == InitYears /\ [][Next]_vars

\* ------------------------------------------------------------ long axes
\* Histories over an axis of n months: the artist "A" plays the album "X" v
\* times in month m of the axis and in no other month, and the artist "C"
\* plays once in each of the other months.

MaxAxis == 12     \* months of the axis

\* the plays of one artist in one month, on both sides of the floors of the
\* spikes
AxisPlays == {25, 30, 59, 60}

\* the instant of the plays of month i of the axis, from January 2019 on
AxisSlot(i) == Utc(2019 + ((i - 1) \div 12), ((i - 1) % 12) + 1, 15, 12, 0)

AxisHistory(n, m, v) ==
    Flatten([i \in 1..n |->
        IF i = m THEN Rep(Ev(AxisSlot(i), 180000, "T", "X", "A"), v)
        ELSE Rep(Ev(AxisSlot(i), 180000, "S", "Z", "C"), 1)])

\* the pipeline is about to run on a history over a long axis
InitAxis ==
    /\ \E n \in 2..MaxAxis, v \in AxisPlays : \E m \in 1..n :
            events = AxisHistory(n, m, v)
    /\ in_rows = <<>>
    /\ in_min_ms = MIN_MS
    /\ in_exclude = FALSE
    /\ stats = EmptyStats
    /\ clock = Now0
    /\ ticks = 0
    /\ fp_low = [z |-> {}, h |-> {}]
    /\ pc = "aggregate"
    /\ cursor = 1
    /\ drop_acc = EmptyDrops
    /\ out = EmptyOut
    /\ run = 1
    /\ prev = EmptyOut

SpecAxis == InitAxis /\ [][Next]_vars


\* ------------------------------------------------------------ main
\* main of spotify_rediscover_cli from the point where its list music
\* (events) is built: the exit on an empty list, then the pipeline that main
\* carries inline, which is the aggregation loop, the spikes, the drop-offs,
\* the dormant artists and the obsessions.  Its zscore_series, months_since
\* and qualifies_dropoff are local functions with the text of those of
\* spotify_analysis; months_since reads the clock at each call, and the
\* dormant section reads it once.

\* if not music: print(...); sys.exit(0): main builds no list
MainExit ==
    /\ pc = "main"
    /\ events = <<>>
    /\ pc' = "exit"
    /\ UNCHANGED <<in_rows, in_min_ms, in_exclude, events, stats, clock, ticks,
                   fp_low, cursor, drop_acc, out, run, prev>>

\* the body of the aggregation loop of main for one event m: each count is
\* raised by 1, and there is no total of ms in this loop
main_step(st, m) ==
    LET mk == month_key(m.ts)
        a == OrUnknown(m.artist)
        al == OrUnknown(m.album)
        key == AlbumKey(a, al)
    IN [st EXCEPT
            !.artist_month_counts = Bump(@, a, mk, 1),
            !.album_month_counts = Bump(@, key, mk, 1),
            !.artist_month_total_counts = Bump(@, a, mk, 1),
            !.artist_last_play = Put(@, a, MaxDt(Get(@, a, DatetimeMin), m.ts)),
            !.album_last_play = Put(@, key, MaxDt(Get(@, key, DatetimeMin), m.ts)),
            !.artist_first_play = Put(@, a, MinDt(Get(@, a, DatetimeMax), m.ts))]

\* the aggregation loop of main over music[lo..hi], from the dicts st.  (The
\* range is halved as in StatsFold.)
RECURSIVE main_fold(_, _, _, _)
main_fold(music, lo, hi, st) ==
    IF lo > hi THEN st
    ELSE IF lo = hi THEN main_step(st, music[lo])
    ELSE LET mid == (lo + hi) \div 2
             left == main_fold(music, lo, mid, st)
         IN IF Len(left.artist_month_counts) >= 0
            THEN main_fold(music, mid + 1, hi, left) ELSE left

\* the aggregation loop of main
MainAggregate ==
    /\ pc = "main"
    /\ events # <<>>
    /\ stats' = main_fold(events, 1, Len(events), EmptyStats)
    /\ pc' = "main_spikes"
    /\ UNCHANGED <<in_rows, in_min_ms, in_exclude, events, clock, ticks, fp_low,
                   cursor, drop_acc, out, run, prev>>

\* all_months = sorted({month_key(m['ts']) for m in music})
main_all_months(music) ==
    SortedSet({month_key(music[i].ts) : i \in 1..Len(music)})

\* the two spike lists of main; where the doubles decide, which way they
\* fall is found here, as in AnalyzeSpikes
MainSpikes ==
    /\ pc = "main_spikes"
    /\ \E z \in SUBSET ThresholdPoints(stats.artist_month_counts,
                                       stats.album_month_counts) :
        /\ fp_low' = [fp_low EXCEPT !.z = z]
        /\ LET all_months == main_all_months(events)
           IN out' = [out EXCEPT
                !.spikes_artist = SpikeList(stats.artist_month_counts, all_months,
                                            SPIKE_MIN_PLAYS, z),
                !.spikes_album = SpikeList(stats.album_month_counts, all_months,
                                           AlbumSpikeFloor, z)]
    /\ pc' = "main_dropoffs"
    /\ cursor' = 1
    /\ drop_acc' = EmptyDrops
    /\ UNCHANGED <<in_rows, in_min_ms, in_exclude, events, stats, clock, ticks,
                   run, prev>>

\* one pass of the two drop-off loops of main: the artists in the order of
\* artist_month_counts, then the albums in the order of album_month_counts.
\* qualifies_dropoff calls months_since, which reads the clock, for an entity
\* that has passed the tests of its peak: the entity is judged against the
\* clock as it stands at this pass.
MainDropoffStep ==
    /\ pc = "main_dropoffs"
    /\ cursor <= Len(stats.artist_month_counts) + Len(stats.album_month_counts)
    /\ LET na == Len(stats.artist_month_counts)
       IN drop_acc' =
            IF cursor <= na
            THEN LET e == stats.artist_month_counts[cursor]
                 IN [drop_acc EXCEPT !.artists = @ \o
                        DropRowsOf(e.k, e.v,
                            Get(stats.artist_last_play, e.k, NoneDt), clock)]
            ELSE LET e == stats.album_month_counts[cursor - na]
                 IN [drop_acc EXCEPT !.albums = @ \o
                        DropRowsOf(e.k, e.v,
                            Get(stats.album_last_play, e.k, NoneDt), clock)]
    /\ cursor' = cursor + 1
    /\ UNCHANGED <<in_rows, in_min_ms, in_exclude, events, stats, clock, ticks,
                   fp_low, pc, out, run, prev>>

\* the two sorts of the drop-off lists (main sorts drop_artists between its
\* two loops; the loop over the albums does not touch that list)
MainDropoffSort ==
    /\ pc = "main_dropoffs"
    /\ cursor > Len(stats.artist_month_counts) + Len(stats.album_month_counts)
    /\ out' = [out EXCEPT !.drop_artists = SortDrops(drop_acc.artists),
                          !.drop_albums = SortDrops(drop_acc.albums)]
    /\ pc' = "main_dormant"
    /\ UNCHANGED <<in_rows, in_min_ms, in_exclude, events, stats, clock, ticks,
                   fp_low, cursor, drop_acc, run, prev>>

\* for m in music: if m["artist"]: artist_total_ms[m["artist"]] += m["ms"]
main_total_step(st, m) ==
    IF m.artist # ""
    THEN [st EXCEPT !.artist_total_ms = Put(@, m.artist, Get(@, m.artist, 0) + m.ms)]
    ELSE st

\* the loop of the totals of main over music[lo..hi], from the dicts st
RECURSIVE main_total_fold(_, _, _, _)
main_total_fold(music, lo, hi, st) ==
    IF lo > hi THEN st
    ELSE IF lo = hi THEN main_total_step(st, music[lo])
    ELSE LET mid == (lo + hi) \div 2
             left == main_total_fold(music, lo, mid, st)
         IN IF Len(left.artist_total_ms) >= 0
            THEN main_total_fold(music, mid + 1, hi, left) ELSE left

\* the dormant section of main: the loop of the totals, one read of the
\* clock, the loop over the totals and the sort, which are those of
\* analyze_dormant_artists
MainDormant ==
    /\ pc = "main_dormant"
    /\ LET st == main_total_fold(events, 1, Len(events), stats)
       IN /\ stats' = st
          /\ \E h \in SUBSET TieSums(st.artist_total_ms) :
                /\ fp_low' = [fp_low EXCEPT !.h = h]
                /\ out' = [out EXCEPT !.grip_artists =
                            analyze_dormant_artists(st.artist_total_ms,
                                st.artist_last_play, clock, h)]
    /\ pc' = "main_obsessions"
    /\ UNCHANGED <<in_rows, in_min_ms, in_exclude, events, clock, ticks, cursor,
                   drop_acc, run, prev>>

\* the obsession section of main, the text of analyze_one_album_obsessions
MainObsessions ==
    /\ pc = "main_obsessions"
    /\ out' = [out EXCEPT !.one_album =
                analyze_one_album_obsessions(events,
                    stats.artist_month_total_counts, stats.album_month_counts)]
    /\ pc' = "main_done"
    /\ UNCHANGED <<in_rows, in_min_ms, in_exclude, events, stats, clock, ticks,
                   fp_low, cursor, drop_acc, run, prev>>

\* the clock advances by a minute while main is in its drop-off or its
\* dormant section
MainTick ==
    /\ pc \in {"main_dropoffs", "main_dormant"}
    /\ ticks < MaxTicks
    /\ clock' = PlusSeconds(clock, 60)
    /\ ticks' = ticks + 1
    /\ UNCHANGED <<in_rows, in_min_ms, in_exclude, events, stats, fp_low, pc,
                   cursor, drop_acc, out, run, prev>>

\* the clock values main starts at: the last minute of January 2022 and the
\* first of February
MainClocks == {Now0, PlusSeconds(Now0, 60)}

\* main has built its list music from a short history
InitMain ==
    /\ \E ks \in SeqsUpTo(BlockSet, MaxBlocks) :
            events = Flatten([i \in 1..Len(ks) |-> Block(ks[i])])
    /\ in_rows = <<>>
    /\ in_min_ms = MIN_MS
    /\ in_exclude = FALSE
    /\ stats = EmptyStats
    /\ clock \in MainClocks
    /\ ticks = 0
    /\ fp_low = [z |-> {}, h |-> {}]
    /\ pc = "main"
    /\ cursor = 1
    /\ drop_acc = EmptyDrops
    /\ out = EmptyOut
    /\ run = 1
    /\ prev = EmptyOut

NextMain ==
    \/ MainExit
    \/ MainAggregate
    \/ MainSpikes
    \/ MainTick
    \/ MainDropoffStep
    \/ MainDropoffSort
    \/ MainDormant
    \/ MainObsessions

SpecMain == InitMain /\ [][NextMain]_vars


\* ------------------------------------------------------------ two albums
\* Histories of one artist "A" with two albums: p plays of "X" and r plays of
\* "Y" in November 2019, d more plays of "X" a month later, inside the
\* window of 60 days, and q more plays of "X" sixty days and thirty seconds
\* after those of November, outside it.
\* The plays of "Y" come first in the list or after those of "X" of
\* November, which sets the order of the albums in the aggregates.

AlbumPeaks == {19, 20, 23}
\* none, 20% of 25 plays, more than 20% of 26, and as many as those of "X"
OtherPlays(p) == {0, 5, 6, p}
NearPlays == {0, 3}
\* 20 of 27 plays are 74% of them, 20 of 29 are 69%
LaterPlays == {0, 7, 9}

TwoAlbums(p, r, d, q, y_first) ==
    LET x == Rep(Ev(Utc(2019, 11, 15, 12, 0), 180000, "T", "X", "A"), p)
        y == Rep(Ev(Utc(2019, 11, 20, 9, 0), 180000, "U", "Y", "A"), r)
    IN (IF y_first THEN y \o x ELSE x \o y)
       \o Rep(Ev(Utc(2019, 12, 15, 12, 0), 180000, "T", "X", "A"), d)
       \o Rep(Ev(UtcAt(2020, 1, 14, 12, 0, 30, 0), 180000, "T", "X", "A"), q)

\* the pipeline is about to run on a history of two albums
InitAlbums ==
    /\ \E p \in AlbumPeaks, d \in NearPlays, q \in LaterPlays, y_first \in BOOLEAN :
        \E r \in OtherPlays(p) : events = TwoAlbums(p, r, d, q, y_first)
    /\ in_rows = <<>>
    /\ in_min_ms = MIN_MS
    /\ in_exclude = FALSE
    /\ stats = EmptyStats
    /\ clock = Now0
    /\ ticks = 0
    /\ fp_low = [z |-> {}, h |-> {}]
    /\ pc = "aggregate"
    /\ cursor = 1
    /\ drop_acc = EmptyDrops
    /\ out = EmptyOut
    /\ run = 1
    /\ prev = EmptyOut

SpecAlbums == InitAlbums /\ [][Next]_vars


\* ------------------------------------------------------------ raw input
\* The raw records the normalizer is started on: a first record with every
\* combination of field values below, followed by up to MaxTail records of
\* TailRows.
EpisodeNames == {TMissing, TNull, TStr(""), TStr("Ep")}
ShowNames == {TMissing, TStr("Show")}
MsValues == {MsMissing, MsNull, MsInt(29999), MsInt(30000), MsNumStr(45000), MsBadStr}
TsValues ==
    {TsMissing, TsNull, TsEmpty, TsInvalid,
     TsIso(2023, 1, 31, 23, 30, "Z", 0),
     TsIso(2023, 1, 31, 23, 30, "offset", 0),
     TsIso(2023, 1, 31, 23, 30, "naive", 0),
     TsIso(2023, 1, 31, 23, 30, "offset", -300),
     TsIso(2023, 2, 1, 3, 0, "offset", 330),
     TsIso(2023, 2, 30, 12, 0, "Z", 0),
     \* a microsecond before February at one second behind UTC
     TsIsoAt(2023, 1, 31, 23, 59, 59, 999999, "offset", -1),
     \* five hours before the first instant of the calendar
     TsIsoAt(1, 1, 1, 0, 0, 0, 0, "offset", 18000)}
\* (track, album, artist)
MetaValues ==
    {<<TStr("T"), TStr("X"), TStr("A")>>,
     <<TMissing, TNull, TStr("A")>>,
     <<TStr("T"), TStr("X"), TNull>>,
     <<TNull, TStr(""), TMissing>>}
MinMsValues == {MIN_MS, 30000}

Row(ep, show, ms, ts, meta) ==
    [episode_name |-> ep, episode_show_name |-> show, ms_played |-> ms,
     ts |-> ts, track |-> meta[1], album |-> meta[2], artist |-> meta[3]]

RawRows ==
    {Row(ep, show, ms, ts, meta) :
        ep \in EpisodeNames, show \in ShowNames, ms \in MsValues,
        ts \in TsValues, meta \in MetaValues}

TailRows ==
    {Row(TMissing, TMissing, MsInt(45000),
         TsIso(2023, 2, 15, 12, 0, "Z", 0), <<TStr("T"), TStr("X"), TStr("A")>>),
     Row(TMissing, TMissing, MsBadStr,
         TsIso(2023, 2, 15, 12, 0, "Z", 0), <<TStr("T"), TStr("X"), TStr("A")>>),
     Row(TStr("Ep"), TStr("Show"), MsInt(30000),
         TsIso(2023, 1, 31, 23, 30, "naive", 0), <<TNull, TNull, TNull>>)}

\* filter_music_rows is about to be called on raw records
InitNorm ==
    /\ \E r \in RawRows, tail \in SeqsUpTo(TailRows, MaxTail) : in_rows = <<r>> \o tail
    /\ in_min_ms \in MinMsValues
    /\ in_exclude \in BOOLEAN
    /\ events = <<>>
    /\ stats = EmptyStats
    /\ clock = Now0
    /\ ticks = 0
    /\ fp_low = [z |-> {}, h |-> {}]
    /\ pc = "filter"
    /\ cursor = 1
    /\ drop_acc = EmptyDrops
    /\ out = EmptyOut
    /\ run = 1
    /\ prev = EmptyOut

NextNorm ==
    \/ FilterMusicRows
    \/ FilterRaises
    \/ ComputeArtistStats

SpecNorm == InitNorm /\ [][NextNorm]_vars

\* ------------------------------------------------------------ properties
\* Helpers of the properties: they read the aggregates as sets.

RECURSIVE SumOver(_, _)
SumOver(S, f) ==
    IF S = {} THEN 0
    ELSE LET x == CHOOSE y \in S : TRUE IN f[x] + SumOver(S \ {x}, f)

Entries(d) == {d[i] : i \in 1..Len(d)}
MaxCount(counter) ==
    CHOOSE v \in {e.v : e \in Entries(counter)} :
        \A e \in Entries(counter) : e.v <= v
MonthsApart(last, now) ==
    (YearOf(now) * 12 + MonthOf(now)) - (YearOf(last) * 12 + MonthOf(last))

\* what analyze_dropoffs has put in its lists and what it has returned
DropArtistRows == Entries(drop_acc.artists) \cup Entries(out.drop_artists)
DropAlbumRows == Entries(drop_acc.albums) \cup Entries(out.drop_albums)
LastPlays ==
    {e.v : e \in Entries(stats.artist_last_play)}
        \cup {e.v : e \in Entries(stats.album_last_play)}
AllSeries ==
    {e.v : e \in Entries(stats.artist_month_counts)}
        \cup {e.v : e \in Entries(stats.album_month_counts)}

DropSafe(counter, last) ==
    /\ counter # <<>>
    /\ MaxCount(counter) >= 20
    /\ 100 * MaxCount(counter) >= 40 * SumValues(counter)
    /\ last # NoneDt
    /\ MonthsApart(last, clock) >= 24

\* C1: an artist or an (artist, album) pair is in the drop-off lists only if
\* its peak-month count is at least 20 and at least 0.40 of its lifetime
\* plays and its last play is at least 24 calendar months back; and two last
\* plays in one UTC calendar month give one decision for any series.
C1_DropoffOnlyIfQualified ==
    /\ \A r \in DropArtistRows :
            DropSafe(Get(stats.artist_month_counts, r.key, <<>>),
                     Get(stats.artist_last_play, r.key, NoneDt))
    /\ \A r \in DropAlbumRows :
            DropSafe(Get(stats.album_month_counts, r.key, <<>>),
                     Get(stats.album_last_play, r.key, NoneDt))
    /\ pc = "dormant" =>
         \A t1 \in LastPlays, t2 \in LastPlays :
            (DtLess(t1, t2) /\ YearOf(t1) = YearOf(t2) /\ MonthOf(t1) = MonthOf(t2)) =>
                \A c \in AllSeries :
                    qualifies_dropoff(c, t1, clock) = qualifies_dropoff(c, t2, clock)

\* a listed artist right at the three thresholds (20 plays, 0.40 of 50, 24
\* months), with two last plays of one month in the aggregates
C1_Witness ==
    /\ pc = "dormant"
    /\ \E r \in Entries(out.drop_artists) :
        /\ r.peak_v = 20 /\ r.lifetime = 50
        /\ MonthsApart(Get(stats.artist_last_play, r.key, NoneDt), clock) = 24
    /\ \E t1 \in LastPlays, t2 \in LastPlays :
        DtLess(t1, t2) /\ month_key(t1) = month_key(t2)

\* ---- spikes
AfterSpikes == pc \in {"dropoffs", "dormant", "obsessions", "done"}
AxisSet == UNION {Keys(e.v) : e \in Entries(stats.artist_month_counts)}

\* (count - mean) / population-stddev >= 2 in exact arithmetic, over the
\* months of AxisSet with 0 for a month without plays
ExactZAtLeast2(counter, m) ==
    LET n == Cardinality(AxisSet)
        s == SumOver(AxisSet, [k \in AxisSet |-> Get(counter, k, 0)])
        q == SumOver(AxisSet, [k \in AxisSet |-> Get(counter, k, 0) * Get(counter, k, 0)])
        num == n * Get(counter, m, 0) - s
    IN n * q - s * s > 0 /\ num > 0 /\ num * num >= 4 * (n * q - s * s)

SpikeListed(list, key, m) == \E r \in Entries(list) : r.key = key /\ r.m = m

\* C2: analyze_spikes lists an (artist, month) exactly when the count is at
\* least 60 and the z-score over all months of the axis is at least 2.0, and
\* an (artist, album, month) exactly when the count is at least 30 and the
\* z-score is at least 2.0.
C2_SpikeExactlyWhen ==
    AfterSpikes =>
        /\ \A e \in Entries(stats.artist_month_counts) : \A m \in AxisSet :
            SpikeListed(out.spikes_artist, e.k, m)
                <=> (Get(e.v, m, 0) >= 60 /\ ExactZAtLeast2(e.v, m))
        /\ \A e \in Entries(stats.album_month_counts) : \A m \in AxisSet :
            SpikeListed(out.spikes_album, e.k, m)
                <=> (Get(e.v, m, 0) >= 30 /\ ExactZAtLeast2(e.v, m))

\* the z-score is 2 in exact arithmetic: the double decides
ExactZIs2(counter, m) ==
    LET n == Cardinality(AxisSet)
        s == SumOver(AxisSet, [k \in AxisSet |-> Get(counter, k, 0)])
        q == SumOver(AxisSet, [k \in AxisSet |-> Get(counter, k, 0) * Get(counter, k, 0)])
        num == n * Get(counter, m, 0) - s
    IN num > 0 /\ num * num = 4 * (n * q - s * s)

\* C2, away from the threshold: the lists are as C2 says wherever the exact
\* z-score is not 2.
C2_SpikeExactlyWhenAwayFrom2 ==
    AfterSpikes =>
        /\ \A e \in Entries(stats.artist_month_counts) : \A m \in AxisSet :
            ~ExactZIs2(e.v, m) =>
                (SpikeListed(out.spikes_artist, e.k, m)
                    <=> (Get(e.v, m, 0) >= 60 /\ ExactZAtLeast2(e.v, m)))
        /\ \A e \in Entries(stats.album_month_counts) : \A m \in AxisSet :
            ~ExactZIs2(e.v, m) =>
                (SpikeListed(out.spikes_album, e.k, m)
                    <=> (Get(e.v, m, 0) >= 30 /\ ExactZAtLeast2(e.v, m)))

\* C3: a series with the same count in every month of the axis (an axis of
\* one month included) has the z-score 0 in every month, computed without a
\* division by zero, and its entity has no spike row whatever its count.
ConstantOnAxis(counter) ==
    \A m1 \in AxisSet, m2 \in AxisSet : Get(counter, m1, 0) = Get(counter, m2, 0)

C3_ZeroVarianceNoSpike ==
    AfterSpikes =>
        /\ \A e \in Entries(stats.artist_month_counts) :
            ConstantOnAxis(e.v) =>
                /\ \A x \in Entries(zscore_series(e.v, AllMonths(stats.artist_month_counts))) :
                        x.z.n = 0 /\ x.z.d # 0
                /\ \A r \in Entries(out.spikes_artist) : r.key # e.k
        /\ \A e \in Entries(stats.album_month_counts) :
            ConstantOnAxis(e.v) =>
                /\ \A x \in Entries(zscore_series(e.v, AllMonths(stats.artist_month_counts))) :
                        x.z.n = 0 /\ x.z.d # 0
                /\ \A r \in Entries(out.spikes_album) : r.key # e.k

\* the spikes are computed for an album with the same count, 30 or more, in
\* each of several months
C3_Witness ==
    /\ AfterSpikes
    /\ Cardinality(AxisSet) > 1
    /\ \E e \in Entries(stats.album_month_counts) :
        ConstantOnAxis(e.v) /\ e.v[1].v >= 30

\* ---- aggregation
Attr(x) == IF x = "" THEN "<unknown>" ELSE x
EventTimes == {events[i].ts : i \in 1..Len(events)}
MonthTimes(m) == {t \in EventTimes : YearOf(t) * 100 + MonthOf(t) = m}
EventMonths == {YearOf(t) * 100 + MonthOf(t) : t \in EventTimes}
ArtistEvents(a) == {i \in 1..Len(events) : Attr(events[i].artist) = a}
AlbumEvents(key) ==
    {i \in 1..Len(events) :
        <<Attr(events[i].artist), Attr(events[i].album)>> = key}

\* the series counter counts the events of the set idx month by month
CountsEvents(counter, idx) ==
    /\ SumValues(counter) = Cardinality(idx)
    /\ \A m \in EventMonths \cup Keys(counter) :
        LET ts == MonthTimes(m)
        IN Get(counter, m, 0) = Cardinality({i \in idx : events[i].ts \in ts})

\* C4: after compute_artist_stats, the per-month counts of every artist and
\* of every (artist, album) pair sum to the number of events attributed to it,
\* and each month's count is the number of its events in that UTC month.
C4_MonthCountsAreEventCounts ==
    (pc = "spikes" /\ run = 1) =>
        /\ \A i \in 1..Len(events) :
            /\ Has(stats.artist_month_counts, Attr(events[i].artist))
            /\ Has(stats.album_month_counts,
                   <<Attr(events[i].artist), Attr(events[i].album)>>)
        /\ \A e \in Entries(stats.artist_month_counts) :
            CountsEvents(e.v, ArtistEvents(e.k))
        /\ \A e \in Entries(stats.album_month_counts) :
            CountsEvents(e.v, AlbumEvents(e.k))

\* aggregated: an artist with plays in several months, more than one in a
\* month, on two albums
C4_Witness ==
    /\ pc = "spikes" /\ run = 1
    /\ \E e \in Entries(stats.artist_month_counts) :
        /\ Len(e.v) >= 2 /\ e.v[1].v >= 2
        /\ Cardinality({f \in Entries(stats.album_month_counts) : f.k[1] = e.k}) >= 2

\* ---- the sliding window
\* the span from the first to the last of the sorted timestamps times, in
\* whole days: the least number of days that is not shorter
SpanDays(times) ==
    LET first == times[1]
        last == times[Len(times)]
        d == DaysBetween(last, first)
    IN IF PlusDays(first, d) = last THEN d ELSE d + 1

\* the window lengths, in days, compared for the sorted timestamps times:
\* some shorter than their span, the span, some longer
WindowsFor(times) ==
    LET span == SpanDays(times)
    IN {0, 1, 5, 31, WINDOW_DAYS, span, span + 1, span + WINDOW_DAYS}

SlidingMonotone(times, lifetime) ==
    LET W == WindowsFor(times)
        best == [w \in W |-> SlidingBest(times, w)]
    IN /\ best = best
       /\ \A w1 \in W, w2 \in W : w1 <= w2 => best[w1] <= best[w2]
       /\ \A w \in W : w >= SpanDays(times) => best[w] = lifetime

\* C5: for the sorted timestamps of an album, the maximum the two-pointer
\* scan finds does not shrink when the window grows, and it is the lifetime
\* play count of the album once the window is at least the span from the
\* first to the last timestamp.
C5_SlidingMaxMonotone ==
    (pc = "done" /\ run = 1) =>
        \A e \in Entries(AlbumDatetimes(events)) :
            SlidingMonotone(SortTimes(e.v),
                            SumValues(Get(stats.album_month_counts, e.k, <<>>)))

\* an album whose plays do not fit the 60 days of the detector: the scan
\* finds fewer than the lifetime there, more than in a window of 31 days,
\* and the lifetime at the span
C5_Witness ==
    /\ pc = "done" /\ run = 1
    /\ \E e \in Entries(AlbumDatetimes(events)) :
        LET times == SortTimes(e.v)
        IN /\ SlidingBest(times, 31) < SlidingBest(times, WINDOW_DAYS)
           /\ SlidingBest(times, WINDOW_DAYS) < Len(times)
           /\ SlidingBest(times, SpanDays(times)) = Len(times)

\* ---- the whole pipeline
\* C6: the pipeline run twice on the same events, with no advance of the
\* clock, returns the same rows in the same order in every list.
C6_RerunSameRows ==
    (run = 2 /\ pc = "done" /\ ticks = 0) => out = prev

\* both runs are done on one clock value and every list has a row
C6_Witness ==
    /\ run = 2 /\ pc = "done" /\ ticks = 0
    /\ out.spikes_artist # <<>> /\ out.spikes_album # <<>>
    /\ out.drop_artists # <<>> /\ Len(out.drop_albums) >= 2
    /\ out.grip_artists # <<>> /\ out.one_album # <<>>

\* C7: on an empty list of events the aggregates are empty and every
\* detector returns empty lists; zscore_series of an empty axis is empty,
\* with no division.
C7_EmptyInEmptyOut ==
    events = <<>> =>
        /\ stats = EmptyStats
        /\ out = EmptyOut
        /\ drop_acc = EmptyDrops
        /\ zscore_series(<<>>, AllMonths(stats.artist_month_counts)) = <<>>

\* the pipeline has run to its end, twice, on no events
C7_Witness == events = <<>> /\ pc = "done" /\ run = 2

\* ---- the normalizer
\* C8: whatever fields of a record are missing, null or malformed,
\* filter_music_rows keeps the record or drops it: it never ends in an error
\* that aborts the run.
C8_FilterNeverRaises == pc # "crashed"

\* the claim's three conditions on a raw record, read off its fields
PodcastRow(r) ==
    \/ r.episode_name.t = "str" /\ r.episode_name.s # ""
    \/ r.episode_show_name.t = "str" /\ r.episode_show_name.s # ""
MsRead(r) == IF r.ms_played.t \in {"missing", "null", "badstr"} THEN 0 ELSE r.ms_played.v
TextRead(x) == IF x.t = "str" THEN x.s ELSE ""
Keep(r) ==
    /\ ~(in_exclude /\ PodcastRow(r))
    /\ MsRead(r) >= in_min_ms
    /\ parse_ts(r.ts) # NoneDt
KeptIdx == {i \in 1..Len(in_rows) : Keep(in_rows[i])}
\* the position in music of the kept record i
KeptPos(i) == Cardinality({j \in KeptIdx : j <= i})
FilterReturned == pc \in {"aggregate", "spikes"} /\ in_rows # <<>>

\* C9: filter_music_rows keeps a record exactly when it is not an excluded
\* podcast, its ms_played (0 when missing or null) is at least min_ms and its
\* ts parses; the kept events are in input order, each with a timestamp and
\* with strings for track, album and artist, "" for a missing or null one.
C9_KeepsExactlyWhen ==
    FilterReturned =>
        /\ Len(events) = Cardinality(KeptIdx)
        /\ \A i \in KeptIdx :
            LET r == in_rows[i]
                e == events[KeptPos(i)]
            IN /\ e.ts = parse_ts(r.ts) /\ e.ts # NoneDt
               /\ e.ms = MsRead(r)
               /\ e.track = TextRead(r.track)
               /\ e.album = TextRead(r.album)
               /\ e.artist = TextRead(r.artist)

\* with exclude_podcasts set, a podcast record is dropped and the music
\* record behind it kept; and, with it unset, a podcast record without
\* ms_played and without an artist is kept
C9_Witness ==
    /\ FilterReturned
    /\ Len(in_rows) = 2
    /\ PodcastRow(in_rows[1])
    /\ \/ in_exclude /\ Len(events) = 1 /\ Keep(in_rows[2])
       \/ /\ ~in_exclude /\ Len(events) = 2
          /\ in_rows[1].ms_played.t = "missing" /\ events[1].artist = ""

\* the UTC instant a raw ISO timestamp names: its wall time less its offset
UtcInstant(ts) ==
    PlusSeconds(UtcAt(ts.y, ts.mo, ts.d, ts.h, ts.mi, ts.s, ts.us),
                -(IF ts.zone = "offset" THEN ts.off ELSE 0))
UtcMonthKey(ts) == YearOf(UtcInstant(ts)) * 100 + MonthOf(UtcInstant(ts))
NextMonthKey(y, mo) == IF mo = 12 THEN (y + 1) * 100 + 1 ELSE y * 100 + mo + 1
ParsedRows == {i \in 1..Len(in_rows) : parse_ts(in_rows[i].ts) # NoneDt}

\* C10: "Z" parses as "+00:00" does, a timestamp without offset is taken as
\* UTC, one with an offset is converted to UTC, and the kept events of an
\* artist are counted under the month of their UTC instants: late on the last
\* local day of a month at -05:00 is the next month.
C10_UtcMonthBinning ==
    /\ \A i \in ParsedRows :
        LET ts == in_rows[i].ts
        IN /\ ts.zone = "Z" =>
                parse_ts(ts) = parse_ts([ts EXCEPT !.zone = "offset", !.off = 0])
           /\ ts.zone = "naive" => parse_ts(ts) = parse_ts([ts EXCEPT !.zone = "Z"])
           /\ parse_ts(ts) =
                PlusSeconds(parse_ts([ts EXCEPT !.zone = "Z", !.off = 0]),
                            -(IF ts.zone = "offset" THEN ts.off ELSE 0))
    /\ (pc = "spikes" /\ in_rows # <<>>) =>
        \A e \in Entries(stats.artist_month_counts) :
            LET mine == {i \in KeptIdx : Attr(TextRead(in_rows[i].artist)) = e.k}
            IN /\ Keys(e.v) = {UtcMonthKey(in_rows[i].ts) : i \in mine}
               /\ \A i \in mine :
                    LET ts == in_rows[i].ts
                    IN /\ Get(e.v, UtcMonthKey(ts), 0)
                            = Cardinality({j \in mine :
                                UtcMonthKey(in_rows[j].ts) = UtcMonthKey(ts)})
                       /\ (ts.zone = "offset" /\ ts.off = -18000
                            /\ ts.d = DaysInMonth(ts.y, ts.mo) /\ ts.h >= 19) =>
                                Has(e.v, NextMonthKey(ts.y, ts.mo))

\* two events of one artist, one stamped 23:30 on 31 January at -05:00 and
\* one at noon on 15 February UTC, are counted together under 2023-02
C10_Witness ==
    /\ pc = "spikes"
    /\ Len(in_rows) = 2 /\ Len(events) = 2
    /\ in_rows[1].ts = TsIso(2023, 1, 31, 23, 30, "offset", -300)
    /\ in_rows[2].ts.zone = "Z"
    /\ \E e \in Entries(stats.artist_month_counts) :
        e.v = <<[k |-> 202302, v |-> 2]>>

\* ---- obsessions
\* the plays of artist a in month mk, and those of them on album al
ArtistMonthPlays(a, mk) ==
    LET ts == MonthTimes(mk)
    IN Cardinality({i \in 1..Len(events) :
            Attr(events[i].artist) = a /\ events[i].ts \in ts})
AlbumMonthPlays(a, al, mk) ==
    LET ts == MonthTimes(mk)
    IN Cardinality({i \in 1..Len(events) :
            /\ Attr(events[i].artist) = a /\ Attr(events[i].album) = al
            /\ events[i].ts \in ts})
AlbumsOf(a) == {Attr(events[i].album) : i \in ArtistEvents(a)}

\* C11: a row (month, artist, album) is in the obsession results only if
\* the artist has at least 20 plays in that month, no album of the artist
\* has more plays in that month than the album, and the album's plays of
\* that month are at least 80% of the artist's plays of that month; the row
\* carries these two counts.
C11_ObsessionOnlyIfDominant ==
    \A r \in Entries(out.one_album) :
        /\ ArtistMonthPlays(r.a, r.mk) >= 20
        /\ \A al \in AlbumsOf(r.a) :
                AlbumMonthPlays(r.a, al, r.mk) <= AlbumMonthPlays(r.a, r.album, r.mk)
        /\ 100 * AlbumMonthPlays(r.a, r.album, r.mk) >= 80 * ArtistMonthPlays(r.a, r.mk)
        /\ r.dominant_plays = AlbumMonthPlays(r.a, r.album, r.mk)
        /\ r.artist_month_total = ArtistMonthPlays(r.a, r.mk)

\* a row right at the dominance threshold: 20 of the artist's 25 plays of the
\* month are on the album, the other 5 on a second album
C11_Witness ==
    /\ pc = "done"
    /\ \E r \in Entries(out.one_album) :
        /\ r.dominant_plays = 20 /\ r.artist_month_total = 25
        /\ Cardinality(AlbumsOf(r.a)) >= 2

\* the plays of the album (a, al), of any month, and the most of them that
\* lie from one of its plays on within w days
AlbumPlays(a, al) == Cardinality(AlbumEvents(<<a, al>>))
MostWithin(a, al, w) ==
    LET idx == AlbumEvents(<<a, al>>)
        starts == {events[i].ts : i \in idx}
        inside == [t \in starts |->
                    Cardinality({i \in idx : /\ DtLe(t, events[i].ts)
                                             /\ DtLe(events[i].ts, PlusDays(t, w))})]
    IN IF starts = {} THEN 0
       ELSE CHOOSE n \in {inside[t] : t \in starts} : \A t \in starts : inside[t] <= n

\* C12: an (artist, album) pair is in the obsession results only if at least
\* 70% of all the plays of the album, of every month, lie in a window whose
\* first and last play are at most 60 days apart, two plays exactly 60 days
\* apart being in one window; the row carries the number of all the plays.
C12_ObsessionOnlyIfConcentrated ==
    \A r \in Entries(out.one_album) :
        /\ r.life = AlbumPlays(r.a, r.album)
        /\ 100 * MostWithin(r.a, r.album, 60) >= 70 * AlbumPlays(r.a, r.album)

\* a row whose album has half of its plays exactly 60 days after the other
\* half: a day less of window holds only 50% of them
C12_Witness ==
    /\ pc = "done"
    /\ \E r \in Entries(out.one_album) :
        /\ AlbumPlays(r.a, r.album) = 40
        /\ MostWithin(r.a, r.album, 59) = 20
        /\ MostWithin(r.a, r.album, 60) = 40

\* month mk qualifies for the pair (a, al): the three tests of C11 and C12
QualifyingMonth(a, al, mk) ==
    /\ ArtistMonthPlays(a, mk) >= 20
    /\ 100 * AlbumMonthPlays(a, al, mk) >= 80 * ArtistMonthPlays(a, mk)
    /\ 100 * MostWithin(a, al, 60) >= 70 * AlbumPlays(a, al)

\* C13: the obsession results hold at most one row for an (artist, album)
\* pair, the row of the earliest month that qualifies for the pair, and the
\* rows are in ascending order of month.
C13_ObsessionOneRowEarliest ==
    LET rows == out.one_album
    IN /\ \A i \in 1..Len(rows), j \in 1..Len(rows) :
            i < j => /\ <<rows[i].a, rows[i].album>> # <<rows[j].a, rows[j].album>>
                     /\ rows[i].mk <= rows[j].mk
       /\ \A i \in 1..Len(rows) :
            /\ QualifyingMonth(rows[i].a, rows[i].album, rows[i].mk)
            /\ \A mk \in EventMonths :
                    mk < rows[i].mk => ~QualifyingMonth(rows[i].a, rows[i].album, mk)

\* C13 with the months in the order of the strings month_key prints, the
\* order of the sort and so of the de-duplication: one row for a pair, the
\* row of the qualifying month whose string is the least, the rows in
\* ascending order of these strings. For years of four digits this is the
\* order of the calendar.
C13_ObsessionOneRowLeastString ==
    LET rows == out.one_album
    IN /\ \A i \in 1..Len(rows), j \in 1..Len(rows) :
            i < j => /\ <<rows[i].a, rows[i].album>> # <<rows[j].a, rows[j].album>>
                     /\ MonthStr(rows[i].mk) <= MonthStr(rows[j].mk)
       /\ \A i \in 1..Len(rows) :
            /\ QualifyingMonth(rows[i].a, rows[i].album, rows[i].mk)
            /\ \A mk \in EventMonths :
                    MonthStr(mk) < MonthStr(rows[i].mk)
                        => ~QualifyingMonth(rows[i].a, rows[i].album, mk)

\* the row of a pair is that of January 1000 though December 999 qualifies
C13_LaterMonthKept ==
    /\ pc = "done"
    /\ \E r \in Entries(out.one_album) :
        /\ r.mk = 100001
        /\ QualifyingMonth(r.a, r.album, 99912)

\* two rows, the first for a pair with a second, later qualifying month whose
\* plays come earlier in the list of events than those of the month kept
C13_Witness ==
    /\ pc = "done"
    /\ Len(out.one_album) >= 2
    /\ LET r == out.one_album[1]
       IN /\ \E mk \in EventMonths : mk > r.mk /\ QualifyingMonth(r.a, r.album, mk)
          /\ Get(stats.artist_month_total_counts, r.a, <<>>)[1].k > r.mk

\* ---- dormancy
Artists == {Attr(events[i].artist) : i \in 1..Len(events)}
\* the listening time of artist a in milliseconds, its last play, and the
\* whole days from that play to the clock
TotalMs(a) == SumOver(ArtistEvents(a), [i \in ArtistEvents(a) |-> events[i].ms])
LastPlayOf(a) ==
    CHOOSE t \in {events[i].ts : i \in ArtistEvents(a)} :
        \A i \in ArtistEvents(a) : DtLe(events[i].ts, t)
DormantDays(a) ==
    LET last == LastPlayOf(a)
    IN CHOOSE n \in (clock.day - last.day - 1)..(clock.day - last.day) :
        DtLe(PlusDays(last, n), clock) /\ DtLess(clock, PlusDays(last, n + 1))
GripListed(a) == \E r \in Entries(out.grip_artists) : r.a = a
AfterDormant == pc \in {"obsessions", "done"}

\* C14: analyze_dormant_artists lists an artist exactly when its listening
\* time is at least 3.0 hours (10,800,000 ms) and the whole days from its
\* last play to now, divided by 365.25, are at least 2 (731 days or more);
\* the values tested are not the rounded ones of the row.
C14_DormantExactlyWhen ==
    AfterDormant =>
        /\ \A a \in Artists :
            /\ GripListed(a) <=> (TotalMs(a) >= 10800000 /\ DormantDays(a) >= 731)
            /\ (100 * DormantDays(a) >= 2 * 36525) <=> DormantDays(a) >= 731
        /\ \A r \in Entries(out.grip_artists) : r.a \in Artists

\* an artist is listed at 731 days; another, 731 days back with 2 h 59 min
\* 50 s of listening, which round to 3.0 hours, is not
C14_Witness ==
    /\ AfterDormant
    /\ \E a \in Artists : GripListed(a) /\ DormantDays(a) = 731
    /\ \E a \in Artists :
        /\ ~GripListed(a) /\ DormantDays(a) = 731
        /\ TotalMs(a) = 10790000 /\ RoundHours(TotalMs(a), FALSE) = 300

\* row i of the dormant artists may stand before row j: longer dormant, or
\* as long dormant and more hours, or equal in both and the lesser name
DormantBefore(ri, rj) ==
    \/ DormantDays(ri.a) > DormantDays(rj.a)
    \/ /\ DormantDays(ri.a) = DormantDays(rj.a)
       /\ \/ ri.hours > rj.hours
          \/ ri.hours = rj.hours /\ LexLess(NameKey(ri.a), NameKey(rj.a))

\* C15: the dormant artists are sorted by dormant years descending, then by
\* hours descending, then by name ascending: of two rows, the artist whose
\* last play is longer ago (more whole days before now) stands first, and
\* the hours decide only between artists dormant equally long.
C15_DormantSortedByDormancy ==
    AfterDormant =>
        \A i \in 1..Len(out.grip_artists), j \in 1..Len(out.grip_artists) :
            i < j => DormantBefore(out.grip_artists[i], out.grip_artists[j])

\* C15, on the values of the rows: the list is sorted by the dormant years
\* rounded to a tenth descending, then by the hours rounded to a hundredth
\* descending, then by name.
C15_DormantSortedByRowValues ==
    AfterDormant =>
        \A i \in 1..Len(out.grip_artists), j \in 1..Len(out.grip_artists) :
            i < j =>
                LET ri == out.grip_artists[i]
                    rj == out.grip_artists[j]
                IN \/ ri.years > rj.years
                   \/ /\ ri.years = rj.years
                      /\ \/ ri.hours > rj.hours
                         \/ ri.hours = rj.hours /\ LexLess(NameKey(ri.a), NameKey(rj.a))

\* ---- the rows of the drop-offs
AfterDropoffs == pc \in {"dormant", "obsessions", "done"}
\* the row r of an entity with monthly play counts plays[m] and n plays in
\* all: the peak is the greatest monthly count, held by the peak month, the
\* lifetime is n, and the share is the hundredth nearest to peak / lifetime
DropRowOf(r, plays, n) ==
    /\ r.peak_m \in EventMonths
    /\ r.peak_v = plays[r.peak_m]
    /\ \A m \in EventMonths : plays[m] <= r.peak_v
    /\ r.lifetime = n
    /\ 2 * (100 * r.peak_v - r.share * r.lifetime) <= r.lifetime
    /\ 2 * (r.share * r.lifetime - 100 * r.peak_v) <= r.lifetime
DropsOrdered(rows) ==
    \A i \in 1..Len(rows), j \in 1..Len(rows) :
        i < j => \/ rows[i].peak_m < rows[j].peak_m
                 \/ rows[i].peak_m = rows[j].peak_m /\ rows[i].share >= rows[j].share

\* C16: a drop-off row carries the peak count, which is the greatest monthly
\* count of its entity, the lifetime, which is the sum of the monthly counts,
\* and the share peak / lifetime rounded to 2 decimals; the artist rows and
\* the album rows are in ascending order of peak month and, within a peak
\* month, in descending order of share.
C16_DropoffRowsAndOrder ==
    AfterDropoffs =>
        /\ \A r \in Entries(out.drop_artists) :
            DropRowOf(r, [m \in EventMonths |-> ArtistMonthPlays(r.key, m)],
                      Cardinality(ArtistEvents(r.key)))
        /\ \A r \in Entries(out.drop_albums) :
            DropRowOf(r, [m \in EventMonths |-> AlbumMonthPlays(r.key[1], r.key[2], m)],
                      Cardinality(AlbumEvents(r.key)))
        /\ DropsOrdered(out.drop_artists)
        /\ DropsOrdered(out.drop_albums)

\* the order of C16 with the peak months in the order of the strings
\* month_key prints, the key of the sort
DropsOrderedByString(rows) ==
    \A i \in 1..Len(rows), j \in 1..Len(rows) :
        i < j => \/ MonthStr(rows[i].peak_m) < MonthStr(rows[j].peak_m)
                 \/ rows[i].peak_m = rows[j].peak_m /\ rows[i].share >= rows[j].share

\* C16 with the rows in ascending order of the printed peak month
C16_DropoffRowsAndStringOrder ==
    AfterDropoffs =>
        /\ \A r \in Entries(out.drop_artists) :
            DropRowOf(r, [m \in EventMonths |-> ArtistMonthPlays(r.key, m)],
                      Cardinality(ArtistEvents(r.key)))
        /\ \A r \in Entries(out.drop_albums) :
            DropRowOf(r, [m \in EventMonths |-> AlbumMonthPlays(r.key[1], r.key[2], m)],
                      Cardinality(AlbumEvents(r.key)))
        /\ DropsOrderedByString(out.drop_artists)
        /\ DropsOrderedByString(out.drop_albums)

\* the artist that peaks in January 1000 is listed before the artist that
\* peaks in December 999
C16_LaterPeakFirst ==
    /\ AfterDropoffs
    /\ Len(out.drop_artists) = 2
    /\ out.drop_artists[1].peak_m = 100001
    /\ out.drop_artists[2].peak_m = 99912

\* two artist rows of one peak month, the greater share first though its
\* artist comes later in the aggregates, and a share below 1
C16_Witness ==
    /\ AfterDropoffs
    /\ Len(out.drop_artists) = 2
    /\ LET r1 == out.drop_artists[1]
           r2 == out.drop_artists[2]
       IN /\ r1.peak_m = r2.peak_m /\ r1.share = 100 /\ r2.share = 80
          /\ stats.artist_month_counts[1].k = r2.key

\* ---- first and last plays
Aggregated == pc # "aggregate" \/ run = 2
Pairs == {<<Attr(events[i].artist), Attr(events[i].album)>> : i \in 1..Len(events)}
LatestOf(idx) ==
    CHOOSE t \in {events[i].ts : i \in idx} : \A i \in idx : DtLe(events[i].ts, t)
EarliestOf(idx) ==
    CHOOSE t \in {events[i].ts : i \in idx} : \A i \in idx : DtLe(t, events[i].ts)

\* the first event of every run of equal events, in the order of the list
RECURSIVE RunHeads(_, _)
RunHeads(music, i) ==
    IF i > Len(music) THEN <<>>
    ELSE IF i > 1 /\ music[i] = music[i - 1] THEN RunHeads(music, i + 1)
    ELSE <<music[i]>> \o RunHeads(music, i + 1)
\* the first and last plays compute_artist_stats records for music, as sets
Recorded(music) ==
    LET st == compute_artist_stats(music)
    IN <<Entries(st.artist_last_play), Entries(st.artist_first_play),
         Entries(st.album_last_play)>>

\* C17: after compute_artist_stats every artist of the events has for last
\* play the latest and for first play the earliest timestamp of its events,
\* every (artist, album) pair has for last play the latest timestamp of its
\* events, no seed value is recorded, and the recorded values are the same
\* for the events taken in any other order.
C17_FirstLastPlays ==
    Aggregated =>
        /\ Keys(stats.artist_last_play) = Artists
        /\ Keys(stats.artist_first_play) = Artists
        /\ Keys(stats.album_last_play) = Pairs
        /\ \A a \in Artists :
            /\ Get(stats.artist_last_play, a, DatetimeMin) = LatestOf(ArtistEvents(a))
            /\ Get(stats.artist_first_play, a, DatetimeMax) = EarliestOf(ArtistEvents(a))
        /\ \A k \in Pairs :
            Get(stats.album_last_play, k, DatetimeMin) = LatestOf(AlbumEvents(k))
        /\ (pc = "spikes" /\ run = 1) =>
            LET heads == RunHeads(events, 1)
            IN \A f \in Permutations(1..Len(heads)) :
                Recorded([i \in 1..Len(heads) |-> heads[f[i]]]) = Recorded(heads)

\* aggregated: an artist whose latest play comes first in the list and whose
\* earliest play comes after it, on two albums
C17_Witness ==
    /\ pc = "spikes" /\ run = 1
    /\ Len(RunHeads(events, 1)) = 3
    /\ \E a \in Artists :
        /\ events[1].artist = a
        /\ events[1].ts = LatestOf(ArtistEvents(a))
        /\ DtLess(EarliestOf(ArtistEvents(a)), LatestOf(ArtistEvents(a)))
        /\ DtLess(Get(stats.artist_first_play, a, DatetimeMax), events[1].ts)

\* ---- the placeholder
NoArtist == {i \in 1..Len(events) : events[i].artist = ""}
NoAlbumOf(a) ==
    {i \in 1..Len(events) :
        events[i].album = "" /\ (IF a = "<unknown>" THEN events[i].artist = ""
                                 ELSE events[i].artist = a)}
NamedArtists == {events[i].artist : i \in 1..Len(events)} \ {""}
MsOver(idx) == SumOver(idx, [i \in idx |-> events[i].ms])

\* C18: the events with an empty artist are aggregated under the one artist
\* key "<unknown>" and those with an empty album under the album
\* "<unknown>" of their artist: no monthly series, last play, first play,
\* total duration or list of album timestamps is keyed by an empty artist or
\* an empty album, and the "<unknown>" series holds all these events.
C18_UnknownPlaceholder ==
    Aggregated =>
        /\ \A k \in Keys(stats.artist_month_counts) \cup Keys(stats.artist_last_play)
                    \cup Keys(stats.artist_first_play) \cup Keys(stats.artist_total_ms)
                    \cup Keys(stats.artist_month_total_counts) : k # ""
        /\ \A k \in Keys(stats.album_month_counts) \cup Keys(stats.album_last_play)
                    \cup Keys(AlbumDatetimes(events)) : k[1] # "" /\ k[2] # ""
        /\ SumValues(Get(stats.artist_month_counts, "<unknown>", <<>>))
                = Cardinality(NoArtist)
        /\ SumValues(Get(stats.artist_month_total_counts, "<unknown>", <<>>))
                = Cardinality(NoArtist)
        /\ Get(stats.artist_total_ms, "<unknown>", 0) = MsOver(NoArtist)
        /\ \A a \in NamedArtists \cup {"<unknown>"} :
            /\ SumValues(Get(stats.album_month_counts, <<a, "<unknown>">>, <<>>))
                    = Cardinality(NoAlbumOf(a))
            /\ Len(Get(AlbumDatetimes(events), <<a, "<unknown>">>, <<>>))
                    = Cardinality(NoAlbumOf(a))

\* aggregated: events without artist in two months, some with an album and
\* some without, and events of a named artist without album
C18_Witness ==
    /\ Aggregated
    /\ Len(Get(stats.artist_month_counts, "<unknown>", <<>>)) = 2
    /\ Has(stats.album_month_counts, <<"<unknown>", "<unknown>">>)
    /\ Has(stats.album_month_counts, <<"<unknown>", "X">>)
    /\ Has(stats.album_month_counts, <<"A", "<unknown>">>)

\* ---- the aggregates under the detectors
\* C19: the detectors leave the aggregates as compute_artist_stats built
\* them: after analyze_spikes, analyze_dropoffs, analyze_dormant_artists and
\* analyze_one_album_obsessions every monthly series has the month keys and
\* the counts it had, with no key of count 0 added for a month of the axis
\* or for an album, and the last plays, first plays and total durations are
\* what they were; so analyze_spikes, run first, returns from the
\* aggregates the other three have read the rows it returned.
C19_DetectorsLeaveAggregates ==
    [][Aggregated =>
        /\ stats' = stats
        /\ pc' = "done" =>
            LET res == analyze_spikes(stats'.artist_month_counts,
                                      stats'.album_month_counts, fp_low'.z)
            IN res.artist = out'.spikes_artist /\ res.album = out'.spikes_album
        /\ \A e \in Entries(stats'.artist_month_counts) :
                \A x \in Entries(e.v) : x.v > 0
        /\ \A e \in Entries(stats'.album_month_counts) :
                \A x \in Entries(e.v) : x.v > 0]_vars

\* the four detectors have run, each with a row to return, over series that
\* lack a month of the axis
C19_Witness ==
    /\ pc = "done"
    /\ out.drop_artists # <<>> /\ out.grip_artists # <<>> /\ out.one_album # <<>>
    /\ \E e \in Entries(stats.artist_month_counts) : Keys(e.v) # AxisSet
    /\ \E e \in Entries(stats.album_month_counts) : Keys(e.v) # AxisSet

\* ---- the reference time
\* the two lists analyze_dropoffs returns when every entity is judged
\* against the instant now
DropListsAt(now) ==
    [artists |-> SortDrops(Flatten([i \in 1..Len(stats.artist_month_counts) |->
        LET e == stats.artist_month_counts[i]
        IN DropRowsOf(e.k, e.v, Get(stats.artist_last_play, e.k, NoneDt), now)])),
     albums |-> SortDrops(Flatten([i \in 1..Len(stats.album_month_counts) |->
        LET e == stats.album_month_counts[i]
        IN DropRowsOf(e.k, e.v, Get(stats.album_last_play, e.k, NoneDt), now)]))]

\* C20: the drop-off and the dormancy detector judge every artist and every
\* album of a run against one reference time, given to them and not read
\* from the clock: the lists of a run are those of one instant, whatever
\* the clock does while the detectors run.
C20_OneReferenceTime ==
    AfterDropoffs =>
        \E now \in {PlusSeconds(Now0, 60 * k) : k \in 0..ticks} :
            /\ out.drop_artists = DropListsAt(now).artists
            /\ out.drop_albums = DropListsAt(now).albums
            /\ AfterDormant =>
                    out.grip_artists =
                        analyze_dormant_artists(stats.artist_total_ms,
                                                stats.artist_last_play, now, fp_low.h)

\* ---- volume
\* no artist has 20 plays in a month, and none three hours of listening
LowVolume ==
    /\ \A a \in Artists : \A mk \in EventMonths : ArtistMonthPlays(a, mk) < 20
    /\ \A a \in Artists : TotalMs(a) < 10800000

\* C21: if no artist has 20 or more plays in any single month and no
\* artist's total listening time reaches 3 hours, every detector output is
\* empty: artist spikes, album spikes, artist drop-offs, album drop-offs,
\* dormant artists and one-album obsessions.
C21_LowVolumeNoRows ==
    LowVolume =>
        /\ out.spikes_artist = <<>> /\ out.spikes_album = <<>>
        /\ out.drop_artists = <<>> /\ out.drop_albums = <<>>
        /\ out.grip_artists = <<>> /\ out.one_album = <<>>

\* the detectors have run, the clock having advanced, on the plays of two
\* artists: one with five plays in a month, 24 months and 731 days back on
\* the clock, the other with one play of 2 h 59 min 50 s in the month before
C21_Witness ==
    /\ pc = "done" /\ ticks = 1
    /\ LowVolume
    /\ Cardinality(Artists) = 2
    /\ \E a \in Artists :
        /\ ArtistMonthPlays(a, 202002) = 5
        /\ months_since(LastPlayOf(a), clock) = 24 /\ DormantDays(a) = 731
    /\ \E a \in Artists : ArtistMonthPlays(a, 202001) = 1 /\ TotalMs(a) = 10790000

\* ---- one month of a long axis
\* the series has its plays in one month
OneMonth(counter) == Len(counter) = 1

\* the month of a one-month series has a z-score whose square is 11, and a
\* row of the list exactly when its count is at least floor; the row shows
\* the z-score 3.32
OneMonthOfTwelve(e, list, floor) ==
    LET zs == zscore_series(e.v, AllMonths(stats.artist_month_counts))
    IN /\ \A x \in Entries(zs) :
            x.m = e.v[1].k =>
                /\ x.v = e.v[1].v
                /\ x.z.n > 0 /\ x.z.n * x.z.n = 11 * x.z.d
                /\ x.z.n * x.z.n >= 4 * x.z.d
       /\ SpikeListed(list, e.k, e.v[1].k) <=> e.v[1].v >= floor
       /\ \A r \in Entries(list) :
            r.key = e.k => r.m = e.v[1].k /\ r.v = e.v[1].v /\ r.z = 332

\* C22: for an entity whose plays all fall in one month of a 12-month axis
\* the z-score of that month is at least 2.0 (its square is 11, whatever the
\* count), so the month is a spike exactly when its count meets the floor:
\* 60 for an artist, 30 for an album.
C22_OneMonthOfTwelve ==
    (AfterSpikes /\ Cardinality(AxisSet) = 12) =>
        /\ \A e \in Entries(stats.artist_month_counts) :
            OneMonth(e.v) => OneMonthOfTwelve(e, out.spikes_artist, 60)
        /\ \A e \in Entries(stats.album_month_counts) :
            OneMonth(e.v) => OneMonthOfTwelve(e, out.spikes_album, 30)

\* on an axis of twelve months an artist has 30 plays, all in one month and
\* on one album: the album's month is a spike, the artist's is not
C22_Witness ==
    /\ AfterSpikes
    /\ Cardinality(AxisSet) = 12
    /\ \E e \in Entries(stats.artist_month_counts) :
        /\ OneMonth(e.v) /\ e.v[1].v = 30
        /\ ~SpikeListed(out.spikes_artist, e.k, e.v[1].k)
        /\ \E f \in Entries(stats.album_month_counts) :
            /\ f.k[1] = e.k /\ f.v = e.v
            /\ SpikeListed(out.spikes_album, f.k, f.v[1].k)

\* ---- the peak month of a tie
\* the months of a series that hold its greatest count
TiedMonths(counter) ==
    {x.k : x \in {y \in Entries(counter) : y.v = MaxCount(counter)}}

\* the peak month of the row r is the earliest month of the series with the
\* greatest count
EarliestPeak(r, counter) ==
    /\ r.peak_m \in TiedMonths(counter)
    /\ \A m \in TiedMonths(counter) : r.peak_m <= m

PeaksEarliest ==
    /\ \A r \in Entries(out.drop_artists) :
        EarliestPeak(r, Get(stats.artist_month_counts, r.key, <<>>))
    /\ \A r \in Entries(out.drop_albums) :
        EarliestPeak(r, Get(stats.album_month_counts, r.key, <<>>))

\* C23: when two or more months of an entity's series tie for the greatest
\* count, the drop-off detector reports the earliest of the tied calendar
\* months as peak month, whatever the order in which the events were
\* aggregated.
C23_PeakMonthEarliest == AfterDropoffs => PeaksEarliest

\* the events are in the order of their timestamps
Chronological ==
    \A i \in 1..Len(events) : i > 1 => DtLe(events[i - 1].ts, events[i].ts)

\* C23 for events aggregated in the order of their timestamps: the peak
\* month is then the earliest of the tied months
C23_PeakMonthEarliestInOrder == (AfterDropoffs /\ Chronological) => PeaksEarliest

\* a drop-off row for a series with two months at the greatest count, on
\* events in the order of their timestamps
C23_InOrderWitness ==
    /\ AfterDropoffs /\ Chronological
    /\ \E r \in Entries(out.drop_artists) :
        Cardinality(TiedMonths(Get(stats.artist_month_counts, r.key, <<>>))) > 1

\* ---- main and the functions
\* main has built its six lists
MainDone == pc = "main_done"

\* the six lists of the functions of spotify_analysis on the events, every
\* entity judged against the instant now and the doubles falling as low says
FunctionsAt(now, low) ==
    LET st == compute_artist_stats(events)
        spikes == analyze_spikes(st.artist_month_counts, st.album_month_counts, low.z)
        Drops(counts, last_play) ==
            SortDrops(Flatten([i \in 1..Len(counts) |->
                DropRowsOf(counts[i].k, counts[i].v,
                           Get(last_play, counts[i].k, NoneDt), now)]))
    IN [spikes_artist |-> spikes.artist,
        spikes_album |-> spikes.album,
        drop_artists |-> Drops(st.artist_month_counts, st.artist_last_play),
        drop_albums |-> Drops(st.album_month_counts, st.album_last_play),
        grip_artists |->
            analyze_dormant_artists(st.artist_total_ms, st.artist_last_play, now, low.h),
        one_album |->
            analyze_one_album_obsessions(events, st.artist_month_total_counts,
                                         st.album_month_counts)]

\* C24: on the same list of normalized events and the same now (the clock
\* has stood still while main ran), the pipeline inlined in main and the
\* functions of spotify_analysis (compute_artist_stats, then the four
\* analyze_* functions) produce the same spike, drop-off, dormant-artist and
\* one-album-obsession rows, events with an empty artist included.
C24_MainAsFunctions ==
    MainDone /\ ticks = 0 => out = FunctionsAt(clock, fp_low)

\* C24 without the dormant artists, and with them where every event has an
\* artist: the rows of main are those of the functions
C24_MainAsFunctionsButDormant ==
    MainDone /\ ticks = 0 =>
        LET fn == FunctionsAt(clock, fp_low)
        IN /\ out.spikes_artist = fn.spikes_artist
           /\ out.spikes_album = fn.spikes_album
           /\ out.drop_artists = fn.drop_artists
           /\ out.drop_albums = fn.drop_albums
           /\ out.one_album = fn.one_album
           /\ out.grip_artists = SelectSeq(fn.grip_artists, LAMBDA r : r.a # UNKNOWN)
           /\ NoArtist = {} => out = fn

\* main has run, the clock standing still, on events of which some have no
\* artist, and each list has a row but that of the spikes
C24_ButDormantWitness ==
    /\ MainDone
    /\ ticks = 0
    /\ NoArtist # {}
    /\ out.drop_artists # <<>> /\ out.drop_albums # <<>>
    /\ out.grip_artists # <<>> /\ out.one_album # <<>>

\* ---- the indices of the scan
\* the states [i, best] of the two-pointer scan after each of its steps
\* lo..hi, from the state st before step lo
RECURSIVE ScanTrace(_, _, _, _)
ScanTrace(times, lo, hi, st) ==
    IF lo > hi THEN <<>>
    ELSE IF lo = hi THEN <<ScanStep(times, lo, st, WINDOW_DAYS)>>
    ELSE LET mid == (lo + hi) \div 2
             left == ScanTrace(times, lo, mid, st)
         IN left \o ScanTrace(times, mid + 1, hi, left[Len(left)])

\* the scan over the sorted timestamps of an album with the counts counter:
\* after step j the left index is between the first index and j, as is best;
\* the list has as many timestamps as the album has plays
ScanInRange(times, counter) ==
    LET tr == ScanTrace(times, 1, Len(times), [i |-> 1, best |-> 0])
    IN /\ Len(times) >= 1
       /\ \A j \in 1..Len(times) :
            /\ 1 <= tr[j].i /\ tr[j].i <= j
            /\ ~DtLess(PlusDays(times[tr[j].i], WINDOW_DAYS), times[j])
            /\ 1 <= tr[j].best /\ tr[j].best <= j
       /\ tr[Len(times)].best = SlidingBest(times, WINDOW_DAYS)
       /\ Len(times) = SumValues(counter)

\* C25: in the two-pointer scan of the obsession detector the left index i
\* satisfies 0 <= i <= j < len(times) at every step (from 1 in the model), so
\* no index is out of range and the inner loop ends; after the scan of a
\* non-empty list 1 <= best <= len(times), which is the album's lifetime
\* plays, so the concentration of a row is in (0, 1].
C25_ScanIndicesInRange ==
    pc = "done" =>
        /\ \A e \in Entries(AlbumDatetimes(events)) :
            ScanInRange(SortTimes(e.v), Get(stats.album_month_counts, e.k, <<>>))
        /\ \A r \in Entries(out.one_album) :
            /\ 0 < r.conc /\ r.conc <= 100
            /\ 1 <= r.life /\ r.life = Cardinality(AlbumEvents(<<r.a, r.album>>))

\* the scan has run for a row of the results whose album has plays more
\* than 60 days apart: the left index has advanced and best is below the
\* number of timestamps
C25_Witness ==
    /\ pc = "done"
    /\ \E r \in Entries(out.one_album) :
        LET times == SortTimes(Get(AlbumDatetimes(events), <<r.a, r.album>>, <<>>))
            tr == ScanTrace(times, 1, Len(times), [i |-> 1, best |-> 0])
        IN /\ tr[Len(times)].i > 1
           /\ tr[Len(times)].best < Len(times)
           /\ r.conc < 100

\* ---- the month of an obsession inside the window
\* the candidates of stage 2: an artist, a month in which the artist has 20
\* plays or more, and the album the scan of that month returns, with 80% of
\* them or more
CandidatesOf(artist_month_total_counts, album_month_counts) ==
    {c \in UNION {{[a |-> e.k, mk |-> x.k, total |-> x.v,
                    dom |-> dominant_album(album_month_counts, e.k, x.k)] :
                        x \in Entries(e.v)} :
                  e \in Entries(artist_month_total_counts)} :
        /\ c.total >= ALBUM_MIN_MONTH_PLAYS
        /\ c.dom.album # NoAlbum
        /\ PassesDominance(c.dom.plays, c.total)}

Candidates == CandidatesOf(stats.artist_month_total_counts, stats.album_month_counts)

\* the greatest number of plays of the album of candidate c in 60 days, as
\* the scan finds it, and the album's plays
BestOf(c) ==
    SlidingBest(SortTimes(Get(AlbumDatetimes(events), <<c.a, c.dom.album>>, <<>>)),
                WINDOW_DAYS)
LifeOf(c) == Cardinality(AlbumEvents(<<c.a, c.dom.album>>))
RowOf(c) ==
    \E r \in Entries(out.one_album) : r.a = c.a /\ r.album = c.dom.album

\* C26, as stated for the rows: every row of the obsessions has month plays
\* (album) <= concentration x lifetime plays (album), the concentration being
\* the one of the row, in hundredths
C26_RowPlaysWithinConcentration ==
    pc = "done" =>
        \A r \in Entries(out.one_album) : 100 * r.dominant_plays <= r.conc * r.life

\* C26: for every candidate (artist, month, dominant album) the 60-day
\* sliding-window maximum of the album is at least the album's plays of that
\* month; hence every obsession row has month plays (album) <= best, which
\* is the unrounded concentration times the lifetime plays, and the rounded
\* concentration of the row times the lifetime plays is less than half a
\* hundredth of the lifetime plays below the month plays at most; and an
\* album whose qualifying-month plays are at least 70% of its lifetime plays
\* always passes stage 2.
C26_MonthInsideWindow ==
    pc = "done" =>
        /\ \A c \in Candidates :
            /\ c.dom.plays = AlbumMonthPlays(c.a, c.dom.album, c.mk)
            /\ BestOf(c) >= c.dom.plays
            /\ 100 * c.dom.plays >= ALBUM_CONCENTRATION_PCT * LifeOf(c) => RowOf(c)
        /\ \A r \in Entries(out.one_album) :
            /\ r.dominant_plays = AlbumMonthPlays(r.a, r.album, r.mk)
            /\ r.life = Cardinality(AlbumEvents(<<r.a, r.album>>))
            /\ \E c \in Candidates :
                /\ c.a = r.a /\ c.dom.album = r.album /\ c.mk = r.mk
                /\ r.dominant_plays <= BestOf(c)
                /\ 2 * (100 * BestOf(c) - r.conc * r.life) <= r.life
                /\ 2 * (r.conc * r.life - 100 * BestOf(c)) <= r.life
            /\ 200 * r.dominant_plays <= 2 * r.conc * r.life + r.life

\* a row whose album has 20 plays in its month and 7 more than 60 days
\* later: 20 of 27 plays are in the window, a concentration of 0.74 in the
\* row, and 0.74 x 27 is less than 20
C26_Witness ==
    /\ pc = "done"
    /\ \E r \in Entries(out.one_album) :
        /\ r.dominant_plays = 20 /\ r.life = 27 /\ r.conc = 74
        /\ \E c \in Candidates :
            c.a = r.a /\ c.dom.album = r.album /\ BestOf(c) = 20

\* ---- the order of the albums
\* the dict d with its items in every order
Reorderings(d) ==
    {[i \in 1..Len(d) |-> d[p[i]]] : p \in Permutations(1..Len(d))}

\* the albums of artist a with the greatest number of plays in month mk
TopAlbums(a, mk) ==
    LET als == {e.k[2] : e \in {x \in Entries(stats.album_month_counts) : x.k[1] = a}}
    IN {al \in als :
            /\ AlbumMonthPlays(a, al, mk) > 0
            /\ \A other \in als :
                AlbumMonthPlays(a, other, mk) <= AlbumMonthPlays(a, al, mk)}

\* C27: the order in which an artist's albums are scanned never changes
\* which (artist, month, album) triples pass the dominance test: when two
\* albums tie for the highest count of a month neither reaches 80% of the
\* artist's total of that month, so the candidates of stage 2, and the rows,
\* are the same for every order of the albums.
C27_AlbumOrderIrrelevant ==
    Aggregated =>
        /\ \A d \in Reorderings(stats.album_month_counts) :
            /\ CandidatesOf(stats.artist_month_total_counts, d) = Candidates
            /\ pc = "done" /\ run = 1 =>
                out.one_album =
                    analyze_one_album_obsessions(events, stats.artist_month_total_counts, d)
        /\ \A e \in Entries(stats.artist_month_total_counts) :
            \A x \in Entries(e.v) :
                Cardinality(TopAlbums(e.k, x.k)) >= 2 =>
                    /\ \A al \in TopAlbums(e.k, x.k) :
                        ~PassesDominance(AlbumMonthPlays(e.k, al, x.k), x.v)
                    /\ \A c \in Candidates : ~(c.a = e.k /\ c.mk = x.k)

\* two albums of an artist tie with 20 plays each in a month, and the scan
\* returns the one or the other with the order of the albums
C27_Witness ==
    /\ pc = "done"
    /\ \E e \in Entries(stats.artist_month_total_counts) :
        \E x \in Entries(e.v) :
            /\ x.v >= ALBUM_MIN_MONTH_PLAYS
            /\ Cardinality(TopAlbums(e.k, x.k)) = 2
            /\ \E d \in Reorderings(stats.album_month_counts) :
                dominant_album(d, e.k, x.k).album
                    # dominant_album(stats.album_month_counts, e.k, x.k).album

\* ---- the artist's total of a month
\* the plays of month mk summed over the albums of artist a, as
\* album_month_counts has them
SumOverAlbums(a, mk) ==
    SumSeq([i \in 1..Len(stats.album_month_counts) |->
        IF stats.album_month_counts[i].k[1] = a
        THEN Get(stats.album_month_counts[i].v, mk, 0) ELSE 0])

\* C28: after compute_artist_stats, for every artist and every month the
\* artist's monthly count is the sum over the artist's albums of the
\* album's count of that month, and artist_month_total_counts is identical
\* to artist_month_counts; so the dominance ratio of the obsession detector,
\* album month count / artist month total, never exceeds 1.
C28_ArtistTotalIsSumOfAlbums ==
    Aggregated =>
        /\ stats.artist_month_total_counts = stats.artist_month_counts
        /\ \A e \in Entries(stats.artist_month_counts) :
            \A x \in Entries(e.v) :
                /\ x.v = SumOverAlbums(e.k, x.k)
                /\ dominant_album(stats.album_month_counts, e.k, x.k).plays <= x.v
        /\ \A e \in Entries(stats.album_month_counts) :
            \A x \in Entries(e.v) :
                /\ x.v > 0
                /\ x.v <= Get(Get(stats.artist_month_total_counts, e.k[1], <<>>), x.k, 0)
        /\ \A r \in Entries(out.one_album) : r.dominant_plays <= r.artist_month_total

\* an artist with plays of two albums in one month, the total of the month
\* above the plays of either, and a row of the obsessions whose album has
\* 20 of the 25 plays of the artist in its month
C28_Witness ==
    /\ pc = "done"
    /\ \E e \in Entries(stats.artist_month_total_counts) :
        \E x \in Entries(e.v) :
            /\ x.v = 25
            /\ dominant_album(stats.album_month_counts, e.k, x.k).plays = 20
            /\ Cardinality({y \in Entries(stats.album_month_counts) :
                    y.k[1] = e.k /\ Has(y.v, x.k)}) = 2
    /\ \E r \in Entries(out.one_album) :
        r.dominant_plays = 20 /\ r.artist_month_total = 25

====
